---- MODULE Spec2Model ----
(***************************************************************************)
(* Allocation / PTO / mass-load core of the GT Utilization Tracker.        *)
(*                                                                         *)
(* The persisted tables (Consultant, Project, Allocation, PTORequest) are  *)
(* the state; every server action is a handler that runs in a call slot.   *)
(* A handler is split at its awaited database calls: one database call is  *)
(* one atomic step, and steps of different slots interleave freely.        *)
(*                                                                         *)
(* Dates are whole days counted from a Sunday (day 0) in the server's time *)
(* zone, taken to be UTC, where `new Date("YYYY-MM-DD")`, parseISO and     *)
(* startOfWeek agree on the calendar day.                                  *)
(* Hours are held in minutes (hours * 60), so that the quotient            *)
(* (endMin - startMin) / 60 of approvePTORequest stays an integer.         *)
(***************************************************************************)
EXTENDS Integers, FiniteSets, Sequences, TLC

VARIABLES
    consultants,   \* ids of the Consultant rows
    projects,      \* Project rows: [id, timecode]
    allocations,   \* Allocation rows: [id, consultantId, projectId, weekStart, entryType, hours, notes]
    ptoRequests,   \* PTORequest rows
    nextId,        \* counter behind the generated ids of Allocation and Project rows
    nextPtoId,     \* next generated id of a PTORequest row
    calls,         \* per slot: the handler running in it, its position and locals
    ret,           \* outcome of the call that finished last
    ptoLog,        \* history: per request, how often each week was upserted and the
                   \* status set to APPROVED
    hist           \* history of serial runs: the running call and the finished ones

db   == <<consultants, projects, allocations, ptoRequests, nextId, nextPtoId>>
vars == <<consultants, projects, allocations, ptoRequests, nextId, nextPtoId,
          calls, ret, ptoLog, hist>>

----------------------------------------------------------------------------
(* Bounds of the model *)

MaxRowId == 3        \* ids generated in one behaviour of a concurrent specification
MaxPTO == 1          \* PTO requests created in one behaviour of a concurrent specification
MaxSerialRowId == 4  \* ids generated in one behaviour of a serial specification
MaxSerialPTO == 2     \* PENDING requests a serial specification starts with
MaxSerialCalls == 2   \* calls in one behaviour of a serial specification
MaxQuarterHours == 200  \* the largest cell value of SpecStatus, in quarters of an hour
MaxRangeDay == 17       \* the last day of the ranges of SpecWeeks

(* Program constants *)

MinutesPerHour == 60
DefaultHoursPerDay == 8
MassLoadMinHalfHours == 1      \* z.number().min(0.5), in half hours
MassLoadMaxHours == 80         \* z.number().max(80)

NULL == "<null>"          \* SQL NULL / JS null
UNDEF == "<undefined>"    \* an omitted optional argument
PTO_TIMECODE == "INT-PTO-001"

EntryTypes == {"ACTUAL", "PROJECTED"}
Elevated == {"ADMIN", "MANAGER"}

NoSession == [role |-> "NONE", consultantId |-> NULL]
Sessions ==
    { NoSession,
      [role |-> "ADMIN", consultantId |-> NULL],
      [role |-> "MANAGER", consultantId |-> NULL],
      [role |-> "EMPLOYEE", consultantId |-> "c1"],
      [role |-> "EMPLOYEE", consultantId |-> NULL] }

ConsultantIds == {"c1", "c2", "cX"}    \* cX is the id of no Consultant row
SeedConsultants == {"c1", "c2"}
SeedProjectId == "acme"
SeedProjects == { [id |-> SeedProjectId, timecode |-> "ACME-WEB-001"] }

\* a generated id (cuid)
GenId(n) == "id" \o ToString(n)

----------------------------------------------------------------------------
(* Calendar: date-fns with weekStartsOn: 0 *)

getDay(d) == d % 7

\* variant: the date itself, not the Sunday of its week
startOfWeekSameDay(d) == d

startOfWeek(d) == d - getDay(d)

addDays(d, n) == d + n

Max(a, b) == IF a >= b THEN a ELSE b
Min(a, b) == IF a <= b THEN a ELSE b

Reverse(seq) == [ i \in 1 .. Len(seq) |-> seq[Len(seq) + 1 - i] ]

WeeksAscending(start, end) ==
    [ i \in 1 .. ((startOfWeek(end) - startOfWeek(start)) \div 7 + 1)
        |-> startOfWeek(start) + (i - 1) * 7 ]

\* eachWeekOfInterval({start, end}, {weekStartsOn: 0}); an interval with
\* start > end is listed backwards by date-fns 3 and 4 (date-fns 2 throws,
\* see IntervalMayThrow)
eachWeekOfInterval(start, end) ==
    IF start <= end THEN WeeksAscending(start, end)
                    ELSE Reverse(WeeksAscending(end, start))

\* date-fns 2: RangeError("Invalid interval") when start is after end
IntervalMayThrow(start, end) == start > end

\* variant: only the Sundays inside [start, end]
getWeeksInRangeInside(start, end) ==
    LET all == eachWeekOfInterval(start, end)
        Inside(w) == w >= start
    IN  SelectSeq(all, Inside)

getWeeksInRange(start, end) == eachWeekOfInterval(start, end)

IsBusinessDay(d) == getDay(d) # 0 /\ getDay(d) # 6

\* the `while (checkDate <= weekEndDate)` loops counting non-weekend days
BusinessDays(from, to) == Cardinality({ d \in from .. to : IsBusinessDay(d) })

----------------------------------------------------------------------------
(* Storage primitives (Prisma calls on the Allocation and Project tables) *)

Key(cid, pid, wk, et) ==
    [consultantId |-> cid, projectId |-> pid, weekStart |-> wk, entryType |-> et]

KeyOf(r) == Key(r.consultantId, r.projectId, r.weekStart, r.entryType)

\* allocation.findUnique({ where: { consultantId_projectId_weekStart_entryType } })
RowsAt(store, k) == { r \in store : KeyOf(r) = k }

NewRow(id, k, hours, notes) ==
    [id |-> id, consultantId |-> k.consultantId, projectId |-> k.projectId,
     weekStart |-> k.weekStart, entryType |-> k.entryType,
     hours |-> hours, notes |-> notes]

\* @@unique([consultantId, projectId, weekStart, entryType]) of Allocation:
\* an insert of a second row with the key of a stored row fails
UniqueViolation(store, k) == RowsAt(store, k) # {}

\* foreign keys of an Allocation row
RefsOk(k) ==
    /\ k.consultantId \in consultants
    /\ \E p \in projects : p.id = k.projectId

----------------------------------------------------------------------------
(* Call slots *)

\* two calls in flight at a time
Slots == {1, 2}

Idle == [pc |-> "idle"]

IsIdle(s) == calls[s].pc = "idle"

NoResult == [ok |-> TRUE, created |-> 0, updated |-> 0, errors |-> << >>]

\* the handler of slot s ends with an exception
Throws(s) ==
    /\ calls' = [calls EXCEPT ![s] = Idle]
    /\ ret' = [NoResult EXCEPT !.ok = FALSE]

\* the handler of slot s returns val
Returns(s, val) ==
    /\ calls' = [calls EXCEPT ![s] = Idle]
    /\ ret' = val

\* the handler of slot s goes on with locals c
Goes(s, c) ==
    /\ calls' = [calls EXCEPT ![s] = c]
    /\ UNCHANGED ret

----------------------------------------------------------------------------
(* PTO requests: src/app/actions/pto.ts *)

NoTime == << >>     \* startTime / endTime of an all-day request (null)

PTOById(id) == { p \in ptoRequests : p.id = id }

\* the row pTORequest.create stores
NewPTORequest(id, data) ==
    [id |-> id,
     consultantId |-> data.consultantId,
     startDate |-> data.startDate,
     endDate |-> data.endDate,
     allDay |-> data.allDay,
     startTime |-> IF data.allDay THEN NoTime ELSE data.startTime,
     endTime |-> IF data.allDay THEN NoTime ELSE data.endTime,
     status |-> "PENDING"]

\* createPTORequest(data)
CreatePTORequest(s, sess, data) ==
    /\ IsIdle(s)
    /\ UNCHANGED <<consultants, projects, allocations, nextId, ptoLog>>
    /\ IF \/ sess = NoSession
          \/ sess.role = "EMPLOYEE" /\ data.consultantId # sess.consultantId
          \/ data.consultantId \notin consultants
       THEN Throws(s) /\ UNCHANGED <<ptoRequests, nextPtoId>>
       ELSE /\ ptoRequests' = ptoRequests \cup { NewPTORequest(nextPtoId, data) }
            /\ nextPtoId' = nextPtoId + 1
            /\ Returns(s, NoResult)

\* hoursPerDay, in minutes: 8 hours, or endHour - startHour + (endMin - startMin) / 60
HoursPerDay(pto) ==
    IF ~pto.allDay /\ pto.startTime # NoTime /\ pto.endTime # NoTime
    THEN (pto.endTime[1] - pto.startTime[1]) * MinutesPerHour
            + (pto.endTime[2] - pto.startTime[2])
    ELSE DefaultHoursPerDay * MinutesPerHour

\* totalDays * hoursPerDay over the whole request
TotalPTOHours(pto) == BusinessDays(pto.startDate, pto.endDate) * HoursPerDay(pto)

\* the business days of the whole week, not of its part inside the request
WeekHoursWholeWeek(pto, weekStart) ==
    BusinessDays(weekStart, addDays(weekStart, 6)) * HoursPerDay(pto)

\* weekDays * hoursPerDay for one element of weeks
WeekHours(pto, weekStart) ==
    BusinessDays(Max(weekStart, pto.startDate),
                 Min(addDays(weekStart, 6), pto.endDate)) * HoursPerDay(pto)

PTOWeeks(pto) == eachWeekOfInterval(pto.startDate, pto.endDate)

\* the loop ending after the first week it wrote
PTOWriteWeeksFirst(pto) ==
    LET PositiveWeek(w) == WeekHours(pto, w) > 0
        written == SelectSeq(PTOWeeks(pto), PositiveWeek)
    IN  IF written = << >> THEN << >> ELSE <<Head(written)>>

\* the weeks of the loop whose body reaches the upsert (weekHours > 0)
PTOWriteWeeks(pto) ==
    LET PositiveWeek(w) == WeekHours(pto, w) > 0
    IN  SelectSeq(PTOWeeks(pto), PositiveWeek)

PTONote(pto) ==
    "PTO: " \o ToString(pto.startDate) \o " - " \o ToString(pto.endDate)

\* an upsert whose update sets the hours instead of incrementing them
UpsertOverwrite(store, id, k, weekHours, notes) ==
    IF RowsAt(store, k) # {}
    THEN { IF KeyOf(r) = k THEN [r EXCEPT !.hours = weekHours] ELSE r : r \in store }
    ELSE store \cup { NewRow(id, k, weekHours, notes) }

\* allocation.upsert with update: { hours: { increment: weekHours } }
UpsertIncrement(store, id, k, weekHours, notes) ==
    IF RowsAt(store, k) # {}
    THEN { IF KeyOf(r) = k THEN [r EXCEPT !.hours = r.hours + weekHours] ELSE r
           : r \in store }
    ELSE store \cup { NewRow(id, k, weekHours, notes) }

\* one more ev ("upsert" of week wk, or "approved") on behalf of request id
Logged(log, id, ev, wk) ==
    IF \E e \in log : e.id = id /\ e.ev = ev /\ e.week = wk
    THEN { IF e.id = id /\ e.ev = ev /\ e.week = wk THEN [e EXCEPT !.n = e.n + 1] ELSE e
           : e \in log }
    ELSE log \cup { [id |-> id, ev |-> ev, week |-> wk, n |-> 1] }

\* approvePTORequest letting every signed-in user through
ApproveReadAnyRole(s, sess, id) ==
    /\ IsIdle(s)
    /\ UNCHANGED <<db, ptoLog>>
    /\ IF \/ sess = NoSession
          \/ PTOById(id) = {}
          \/ \E p \in PTOById(id) : p.status # "PENDING"
       THEN Throws(s)
       ELSE \E p \in PTOById(id) :
                Goes(s, [op |-> "approve", pc |-> "findProject", pto |-> p,
                         proj |-> NULL, weeks |-> << >>])

\* approvePTORequest: auth, findUnique, the not-found and not-pending checks
ApproveRead(s, sess, id) ==
    /\ IsIdle(s)
    /\ UNCHANGED <<db, ptoLog>>
    /\ IF \/ sess = NoSession
          \/ sess.role \notin Elevated
          \/ PTOById(id) = {}
          \/ \E p \in PTOById(id) : p.status # "PENDING"
       THEN Throws(s)
       ELSE \E p \in PTOById(id) :
                Goes(s, [op |-> "approve", pc |-> "findProject", pto |-> p,
                         proj |-> NULL, weeks |-> << >>])

\* what follows ptoProject: weeks, hoursPerDay and the day count, all local
ApproveAfterProject(s, projId) ==
    LET pto == calls[s].pto IN
    \/ /\ IntervalMayThrow(pto.startDate, pto.endDate)
       /\ Throws(s)
    \/ Goes(s, [calls[s] EXCEPT !.pc = "upsert", !.proj = projId,
                                !.weeks = PTOWriteWeeks(pto)])

\* the data of project.create for the PTO project
PTOSinkProject(id) ==
    [id |-> id, timecode |-> PTO_TIMECODE, client |-> "Internal",
     projectName |-> "PTO", type |-> "ASSIGNED", status |-> "ACTIVE"]

\* a lookup that never finds the PTO project
ApproveFindProjectNone(s) ==
    /\ calls[s].pc = "findProject"
    /\ UNCHANGED <<db, ptoLog>>
    /\ Goes(s, [calls[s] EXCEPT !.pc = "createProject"])

\* project.findFirst({ where: { timecode: "INT-PTO-001" } })
ApproveFindProject(s) ==
    /\ calls[s].pc = "findProject"
    /\ UNCHANGED <<db, ptoLog>>
    /\ IF \E p \in projects : p.timecode = PTO_TIMECODE
       THEN \E p \in projects :
                p.timecode = PTO_TIMECODE /\ ApproveAfterProject(s, p.id)
       ELSE Goes(s, [calls[s] EXCEPT !.pc = "createProject"])

\* Project.timecode is unique: a project with this timecode is stored
TimecodeTaken(tc) == \E p \in projects : p.timecode = tc

\* project.create for the PTO project; timecode is unique in the schema
ApproveCreateProject(s) ==
    /\ calls[s].pc = "createProject"
    /\ UNCHANGED <<consultants, allocations, ptoRequests, nextPtoId, ptoLog>>
    /\ IF TimecodeTaken(PTO_TIMECODE)
       THEN Throws(s) /\ UNCHANGED <<projects, nextId>>
       ELSE /\ projects' = projects \cup { PTOSinkProject(GenId(nextId)) }
            /\ nextId' = nextId + 1
            /\ ApproveAfterProject(s, GenId(nextId))

\* one pass of the week loop that reaches allocation.upsert
ApproveUpsert(s) ==
    /\ calls[s].pc = "upsert"
    /\ calls[s].weeks # << >>
    /\ LET pto == calls[s].pto
           wk == Head(calls[s].weeks)
           k == Key(pto.consultantId, calls[s].proj, startOfWeek(wk), "ACTUAL")
       IN  /\ UNCHANGED <<consultants, projects, ptoRequests, nextPtoId>>
           /\ IF RefsOk(k)
              THEN /\ allocations' =
                         UpsertIncrement(allocations, GenId(nextId), k, WeekHours(pto, wk), PTONote(pto))
                   /\ nextId' = IF RowsAt(allocations, k) = {} THEN nextId + 1 ELSE nextId
                   /\ ptoLog' = Logged(ptoLog, pto.id, "upsert", startOfWeek(wk))
                   /\ Goes(s, [calls[s] EXCEPT !.weeks = Tail(calls[s].weeks)])
              ELSE Throws(s) /\ UNCHANGED <<allocations, nextId, ptoLog>>

SetStatus(reqs, id, status) ==
    { IF p.id = id THEN [p EXCEPT !.status = status] ELSE p : p \in reqs }

\* pTORequest.update({ where: { id }, data: { status: APPROVED } })
ApproveUpdateStatus(s) ==
    /\ calls[s].pc = "upsert"
    /\ calls[s].weeks = << >>
    /\ UNCHANGED <<consultants, projects, allocations, nextId, nextPtoId>>
    /\ IF PTOById(calls[s].pto.id) = {}
       THEN Throws(s) /\ UNCHANGED <<ptoRequests, ptoLog>>
       ELSE /\ ptoRequests' = SetStatus(ptoRequests, calls[s].pto.id, "APPROVED")
            /\ ptoLog' = Logged(ptoLog, calls[s].pto.id, "approved", 0)
            /\ Returns(s, NoResult)

\* denyPTORequest: auth, findUnique, the not-found and not-pending checks
DenyRead(s, sess, id) ==
    /\ IsIdle(s)
    /\ UNCHANGED <<db, ptoLog>>
    /\ IF \/ sess = NoSession
          \/ sess.role \notin Elevated
          \/ PTOById(id) = {}
          \/ \E p \in PTOById(id) : p.status # "PENDING"
       THEN Throws(s)
       ELSE \E p \in PTOById(id) :
                Goes(s, [op |-> "deny", pc |-> "update", pto |-> p])

\* pTORequest.update({ where: { id }, data: { status: DENIED } })
DenyUpdateStatus(s) ==
    /\ calls[s].pc = "update"
    /\ calls[s].op = "deny"
    /\ UNCHANGED <<consultants, projects, allocations, nextId, nextPtoId, ptoLog>>
    /\ IF PTOById(calls[s].pto.id) = {}
       THEN Throws(s) /\ UNCHANGED ptoRequests
       ELSE /\ ptoRequests' = SetStatus(ptoRequests, calls[s].pto.id, "DENIED")
            /\ Returns(s, NoResult)

\* deletePTORequest without its not-pending check
DeletePTOReadAnyStatus(s, sess, id) ==
    /\ IsIdle(s)
    /\ UNCHANGED <<db, ptoLog>>
    /\ IF \/ sess = NoSession
          \/ PTOById(id) = {}
          \/ \E p \in PTOById(id) :
                sess.role = "EMPLOYEE" /\ p.consultantId # sess.consultantId
       THEN Throws(s)
       ELSE \E p \in PTOById(id) :
                Goes(s, [op |-> "deletePTO", pc |-> "delete", pto |-> p, sess |-> sess])

\* deletePTORequest: auth, findUnique, the not-found, not-pending and owner checks
DeletePTORead(s, sess, id) ==
    /\ IsIdle(s)
    /\ UNCHANGED <<db, ptoLog>>
    /\ IF \/ sess = NoSession
          \/ PTOById(id) = {}
          \/ \E p \in PTOById(id) :
                \/ p.status # "PENDING"
                \/ sess.role = "EMPLOYEE" /\ p.consultantId # sess.consultantId
       THEN Throws(s)
       ELSE \E p \in PTOById(id) :
                Goes(s, [op |-> "deletePTO", pc |-> "delete", pto |-> p, sess |-> sess])

\* pTORequest.delete({ where: { id } })
DeletePTODelete(s) ==
    /\ calls[s].pc = "delete"
    /\ UNCHANGED <<consultants, projects, allocations, nextId, nextPtoId, ptoLog>>
    /\ IF PTOById(calls[s].pto.id) = {}
       THEN Throws(s) /\ UNCHANGED ptoRequests
       ELSE /\ ptoRequests' = { p \in ptoRequests : p.id # calls[s].pto.id }
            /\ Returns(s, NoResult)

----------------------------------------------------------------------------
(* Cell edits: updateAllocation and deleteAllocation (lib/actions/utilization) *)

\* parseISO of the "YYYY-MM-DD" argument
parseISO(day) == day

\* an upsert whose update adds the hours to the stored ones
UpsertCellIncrement(store, id, k, hours, notes) ==
    IF RowsAt(store, k) # {}
    THEN { IF KeyOf(r) = k
           THEN [r EXCEPT !.hours = r.hours + hours,
                          !.notes = IF notes = UNDEF THEN r.notes ELSE notes]
           ELSE r
           : r \in store }
    ELSE store \cup { NewRow(id, k, hours, IF notes = UNDEF THEN NULL ELSE notes) }

\* a blind allocation.create in place of the upsert
UpsertCellBlindInsert(store, id, k, hours, notes) ==
    store \cup { NewRow(id, k, hours, IF notes = UNDEF THEN NULL ELSE notes) }

\* allocation.upsert with update: { hours, notes }; an undefined notes leaves
\* the stored notes alone on update and stores null on create
UpsertCell(store, id, k, hours, notes) ==
    IF RowsAt(store, k) # {}
    THEN { IF KeyOf(r) = k
           THEN [r EXCEPT !.hours = hours,
                          !.notes = IF notes = UNDEF THEN r.notes ELSE notes]
           ELSE r
           : r \in store }
    ELSE store \cup { NewRow(id, k, hours, IF notes = UNDEF THEN NULL ELSE notes) }

\* variant: any signed-in user may edit any consultant's cells
MayEditCellsSignedIn(sess, consultantId) ==
    sess # NoSession

MayEditCells(sess, consultantId) ==
    /\ sess # NoSession
    /\ ~(sess.role = "EMPLOYEE" /\ sess.consultantId # consultantId)

\* updateAllocation(consultantId, weekStart, projectId, hours, entryType, notes)
UpdateAllocation(s, sess, a) ==
    LET weekDate == startOfWeek(parseISO(a.weekStart))
        k == Key(a.consultantId, a.projectId, weekDate, a.entryType)
    IN  /\ IsIdle(s)
        /\ UNCHANGED <<consultants, projects, ptoRequests, nextPtoId, ptoLog>>
        /\ IF ~MayEditCells(sess, a.consultantId)
              \/ (RowsAt(allocations, k) = {} /\ ~RefsOk(k))
           THEN Throws(s) /\ UNCHANGED <<allocations, nextId>>
           ELSE /\ allocations' = UpsertCell(allocations, GenId(nextId), k, a.hours, a.notes)
                /\ nextId' = IF RowsAt(allocations, k) = {} THEN nextId + 1 ELSE nextId
                /\ Returns(s, NoResult)

\* deleteAllocation(consultantId, projectId, weekStart, entryType)
DeleteAllocation(s, sess, a) ==
    LET weekDate == startOfWeek(parseISO(a.weekStart))
        k == Key(a.consultantId, a.projectId, weekDate, a.entryType)
    IN  /\ IsIdle(s)
        /\ UNCHANGED <<consultants, projects, ptoRequests, nextId, nextPtoId, ptoLog>>
        /\ IF ~MayEditCells(sess, a.consultantId) \/ RowsAt(allocations, k) = {}
           THEN Throws(s) /\ UNCHANGED allocations
           ELSE /\ allocations' = { r \in allocations : KeyOf(r) # k }
                /\ Returns(s, NoResult)

----------------------------------------------------------------------------
(* Deleting a consultant or a project: src/app/actions/consultants.ts and
   app/actions/projects (part_007) *)

\* what the schema lets the database do with the Allocation rows of a
\* deleted consultant or project: refuse the delete, or delete them too
OnDeleteActions == {"Restrict", "Cascade"}

\* variant: no count of the allocations before the delete
DeleteConsultantCountUnchecked(s, sess, id) ==
    /\ IsIdle(s)
    /\ UNCHANGED <<db, ptoLog>>
    /\ IF sess = NoSession \/ sess.role # "ADMIN"
       THEN Throws(s)
       ELSE Goes(s, [op |-> "deleteConsultant", pc |-> "consultant.delete", id |-> id])

\* deleteConsultant: auth, allocation.count({ consultantId: id })
DeleteConsultantCount(s, sess, id) ==
    /\ IsIdle(s)
    /\ UNCHANGED <<db, ptoLog>>
    /\ IF sess = NoSession \/ sess.role # "ADMIN"
       THEN Throws(s)
       ELSE IF Cardinality({ r \in allocations : r.consultantId = id }) > 0
            THEN Throws(s)
            ELSE Goes(s, [op |-> "deleteConsultant", pc |-> "consultant.delete", id |-> id])

\* deleteConsultant: consultant.delete({ id })
DeleteConsultantDelete(s) ==
    /\ calls[s].pc = "consultant.delete"
    /\ UNCHANGED <<projects, ptoRequests, nextId, nextPtoId, ptoLog>>
    /\ LET id == calls[s].id
           rows == { r \in allocations : r.consultantId = id }
       IN  IF id \notin consultants
           THEN Throws(s) /\ UNCHANGED <<consultants, allocations>>
           ELSE \E action \in OnDeleteActions :
                    IF rows # {} /\ action = "Restrict"
                    THEN Throws(s) /\ UNCHANGED <<consultants, allocations>>
                    ELSE /\ consultants' = consultants \ {id}
                         /\ allocations' = allocations \ rows
                         /\ Returns(s, NoResult)

\* deleteProject: auth, allocation.count({ projectId: id })
DeleteProjectCount(s, sess, id) ==
    /\ IsIdle(s)
    /\ UNCHANGED <<db, ptoLog>>
    /\ IF sess = NoSession \/ sess.role # "ADMIN"
       THEN Throws(s)
       ELSE IF Cardinality({ r \in allocations : r.projectId = id }) > 0
            THEN Throws(s)
            ELSE Goes(s, [op |-> "deleteProject", pc |-> "project.delete", id |-> id])

\* deleteProject: project.delete({ id })
DeleteProjectDelete(s) ==
    /\ calls[s].pc = "project.delete"
    /\ UNCHANGED <<consultants, ptoRequests, nextId, nextPtoId, ptoLog>>
    /\ LET id == calls[s].id
           rows == { r \in allocations : r.projectId = id }
       IN  IF ~(\E p \in projects : p.id = id)
           THEN Throws(s) /\ UNCHANGED <<projects, allocations>>
           ELSE \E action \in OnDeleteActions :
                    IF rows # {} /\ action = "Restrict"
                    THEN Throws(s) /\ UNCHANGED <<projects, allocations>>
                    ELSE /\ projects' = { p \in projects : p.id # id }
                         /\ allocations' = allocations \ rows
                         /\ Returns(s, NoResult)

----------------------------------------------------------------------------
(* Mass load: src/app/actions/mass-load.ts *)

NoDate == -1     \* an omitted endDate

\* massLoadSchema.parse(data)
MassLoadValid(data) ==
    /\ Len(data.consultantIds) >= 1
    /\ data.hours * 2 >= MassLoadMinHalfHours * MinutesPerHour
    /\ data.hours <= MassLoadMaxHours * MinutesPerHour
    /\ data.entryType \in EntryTypes

MassEnd(data) == IF data.endDate # NoDate THEN data.endDate ELSE data.startDate

MassWeeks(data) == eachWeekOfInterval(data.startDate, MassEnd(data))

\* the loops' next position after the pair (Head(cids), Head(wi)) is done,
\* or the return of results when no consultant is left
MassNext(s, c) ==
    IF c.cids = << >>
    THEN Returns(s, c.res)
    ELSE Goes(s, c)

\* createMassLoad: auth, parse, weeks, project.findUnique
MassStart(s, sess, data) ==
    /\ IsIdle(s)
    /\ UNCHANGED <<db, ptoLog>>
    /\ \/ /\ \/ sess = NoSession
             \/ sess.role \notin Elevated
             \/ ~MassLoadValid(data)
             \/ IntervalMayThrow(data.startDate, MassEnd(data))
             \/ ~(\E p \in projects : p.id = data.projectId)
          /\ Throws(s)
       \/ /\ sess # NoSession
          /\ sess.role \in Elevated
          /\ MassLoadValid(data)
          /\ \E p \in projects : p.id = data.projectId
          /\ Goes(s, [op |-> "massLoad", pc |-> "consultant", data |-> data,
                      cids |-> data.consultantIds, wi |-> << >>,
                      existing |-> {}, res |-> NoResult])

\* a lookup whose miss ends the run
MassFindConsultantAbort(s) ==
    /\ calls[s].pc = "consultant"
    /\ UNCHANGED <<db, ptoLog>>
    /\ LET c == calls[s]
           cid == Head(c.cids)
       IN  IF cid \in consultants
           THEN Goes(s, [c EXCEPT !.pc = "existing", !.wi = MassWeeks(c.data)])
           ELSE Returns(s, [c.res EXCEPT
                    !.errors = Append(c.res.errors,
                        [kind |-> "not found", consultantId |-> cid, weekStart |-> NoDate])])

\* consultant.findUnique for the next consultant id
MassFindConsultant(s) ==
    /\ calls[s].pc = "consultant"
    /\ UNCHANGED <<db, ptoLog>>
    /\ LET c == calls[s]
           cid == Head(c.cids)
       IN  IF cid \in consultants
           THEN Goes(s, [c EXCEPT !.pc = "existing", !.wi = MassWeeks(c.data)])
           ELSE MassNext(s, [c EXCEPT
                    !.cids = Tail(c.cids),
                    !.res.errors = Append(c.res.errors,
                        [kind |-> "not found", consultantId |-> cid, weekStart |-> NoDate])])

MassKey(c) ==
    Key(Head(c.cids), c.data.projectId, startOfWeek(Head(c.wi)), c.data.entryType)

\* a lookup that never finds the row of the pair
MassFindExistingNone(s) ==
    /\ calls[s].pc = "existing"
    /\ UNCHANGED <<db, ptoLog>>
    /\ Goes(s, [calls[s] EXCEPT !.pc = "write", !.existing = {}])

\* allocation.findUnique for the pair
MassFindExisting(s) ==
    /\ calls[s].pc = "existing"
    /\ UNCHANGED <<db, ptoLog>>
    /\ Goes(s, [calls[s] EXCEPT !.pc = "write",
                                !.existing = RowsAt(allocations, MassKey(calls[s]))])

\* the locals after the pair: next week, or next consultant
MassAfterPair(c, res) ==
    IF Tail(c.wi) = << >>
    THEN [c EXCEPT !.pc = "consultant", !.cids = Tail(c.cids), !.wi = << >>,
                   !.existing = {}, !.res = res]
    ELSE [c EXCEPT !.pc = "existing", !.wi = Tail(c.wi), !.existing = {}, !.res = res]

MassFailed(c) ==
    [c.res EXCEPT !.errors = Append(c.res.errors,
        [kind |-> "failed", consultantId |-> Head(c.cids),
         weekStart |-> startOfWeek(Head(c.wi))])]

\* an update with notes: validated.notes, without the fallback of ||
MassUpdateRowNoFallback(store, existing, data) ==
    { IF r.id = existing.id
      THEN [r EXCEPT !.hours = data.hours,
                     !.notes = IF data.notes = UNDEF THEN r.notes ELSE data.notes]
      ELSE r
      : r \in store }

\* allocation.update({ where: { id: existing.id }, data: { hours, notes } })
MassUpdateRow(store, existing, data) ==
    { IF r.id = existing.id
      THEN [r EXCEPT !.hours = data.hours,
                     !.notes = IF data.notes \in {UNDEF, ""} THEN existing.notes
                               ELSE data.notes]
      ELSE r
      : r \in store }

\* allocation.create for the pair
MassCreateRow(store, id, k, data) ==
    store \cup { NewRow(id, k, data.hours, IF data.notes = UNDEF THEN NULL ELSE data.notes) }

\* the try block of the pair: update the row found, or create one; a failing
\* write is caught and recorded
MassWrite(s) ==
    /\ calls[s].pc = "write"
    /\ UNCHANGED <<consultants, projects, ptoRequests, nextPtoId, ptoLog>>
    /\ LET c == calls[s]
           k == MassKey(c)
       IN  IF c.existing # {}
           THEN \E e \in c.existing :
                    IF \E r \in allocations : r.id = e.id
                    THEN /\ allocations' = MassUpdateRow(allocations, e, c.data)
                         /\ UNCHANGED nextId
                         /\ MassNext(s, MassAfterPair(c, [c.res EXCEPT !.updated = @ + 1]))
                    ELSE /\ UNCHANGED <<allocations, nextId>>
                         /\ MassNext(s, MassAfterPair(c, MassFailed(c)))
           ELSE IF ~UniqueViolation(allocations, k) /\ RefsOk(k)
                THEN /\ allocations' = MassCreateRow(allocations, GenId(nextId), k, c.data)
                     /\ nextId' = nextId + 1
                     /\ MassNext(s, MassAfterPair(c, [c.res EXCEPT !.created = @ + 1]))
                ELSE /\ UNCHANGED <<allocations, nextId>>
                     /\ MassNext(s, MassAfterPair(c, MassFailed(c)))

\* previewMassLoad: auth, parse, weeks, consultant.findMany({ id: { in } })
PreviewStart(s, sess, data) ==
    /\ IsIdle(s)
    /\ UNCHANGED <<db, ptoLog>>
    /\ \/ /\ \/ sess = NoSession
             \/ sess.role \notin Elevated
             \/ ~MassLoadValid(data)
             \/ IntervalMayThrow(data.startDate, MassEnd(data))
          /\ Throws(s)
       \/ /\ sess # NoSession
          /\ sess.role \in Elevated
          /\ MassLoadValid(data)
          /\ Goes(s, [op |-> "preview", pc |-> "project", data |-> data,
                      weeks |-> MassWeeks(data),
                      found |-> { cid \in consultants :
                                    \E i \in 1 .. Len(data.consultantIds) :
                                        data.consultantIds[i] = cid }])

\* the object previewMassLoad returns
PreviewResult(c, projs) ==
    [ok |-> TRUE,
     consultantCount |-> Cardinality(c.found),
     consultantNames |-> c.found,
     weekCount |-> Len(c.weeks),
     totalAllocations |-> Cardinality(c.found) * Len(c.weeks),
     totalHours |-> Cardinality(c.found) * Len(c.weeks) * c.data.hours,
     project |-> IF \E p \in projs : p.id = c.data.projectId
                 THEN (CHOOSE p \in projs : p.id = c.data.projectId).timecode
                 ELSE "Unknown"]

\* a preview that stores the first pair it counted
PreviewProjectStoring(s) ==
    /\ calls[s].pc = "project"
    /\ UNCHANGED <<consultants, projects, ptoRequests, nextPtoId, ptoLog>>
    /\ LET c == calls[s]
       IN  /\ IF c.found # {} /\ c.weeks # << >>
              THEN /\ allocations' = UpsertCell(allocations, GenId(nextId),
                                        Key(CHOOSE cid \in c.found : TRUE, c.data.projectId,
                                            Head(c.weeks), c.data.entryType),
                                        c.data.hours, c.data.notes)
                   /\ nextId' = nextId + 1
              ELSE UNCHANGED <<allocations, nextId>>
           /\ Returns(s, PreviewResult(c, projects))

\* previewMassLoad: project.findUnique and the return
PreviewProject(s) ==
    /\ calls[s].pc = "project"
    /\ UNCHANGED <<db, ptoLog>>
    /\ Returns(s, PreviewResult(calls[s], projects))

----------------------------------------------------------------------------
(* Inputs and frames shared by the specifications *)

PTOIds == 1 .. MaxPTO

AllDay(cid, from, to) ==
    [consultantId |-> cid, startDate |-> from, endDate |-> to,
     allDay |-> TRUE, startTime |-> NoTime, endTime |-> NoTime]

Timed(cid, from, to, st, et) ==
    [consultantId |-> cid, startDate |-> from, endDate |-> to,
     allDay |-> FALSE, startTime |-> st, endTime |-> et]

\* concurrent specifications: the caps on generated ids, no serial history
ConcFrame ==
    /\ nextId' <= MaxRowId + 1
    /\ nextPtoId' <= MaxPTO + 1
    /\ UNCHANGED hist

\* the history of serial runs: the running call and the finished ones
NoHist == [cur |-> [op |-> "none"], log |-> << >>]

----------------------------------------------------------------------------
(* SpecPTO: the PTO request lifecycle, handlers interleaved over the slots *)

\* Monday to Friday of week 0 for c1 and for c2; Thursday to Monday for c1
LifecyclePTOInputs == { AllDay("c1", 1, 5), AllDay("c2", 1, 5), AllDay("c1", 4, 8) }

InitPTO ==
    /\ consultants = SeedConsultants
    /\ projects = SeedProjects
    /\ allocations = {}
    /\ ptoRequests = {}
    /\ nextId = 1
    /\ nextPtoId = 1
    /\ calls = [s \in Slots |-> Idle]
    /\ ret = NoResult
    /\ ptoLog = {}
    /\ hist = NoHist

NextPTO ==
    \E s \in Slots :
        \/ \E sess \in Sessions, d \in LifecyclePTOInputs :
                CreatePTORequest(s, sess, d) /\ ConcFrame
        \/ \E sess \in Sessions, id \in PTOIds : ApproveRead(s, sess, id) /\ ConcFrame
        \/ ApproveFindProject(s) /\ ConcFrame
        \/ ApproveCreateProject(s) /\ ConcFrame
        \/ ApproveUpsert(s) /\ ConcFrame
        \/ ApproveUpdateStatus(s) /\ ConcFrame
        \/ \E sess \in Sessions, id \in PTOIds : DenyRead(s, sess, id) /\ ConcFrame
        \/ DenyUpdateStatus(s) /\ ConcFrame
        \/ \E sess \in Sessions, id \in PTOIds : DeletePTORead(s, sess, id) /\ ConcFrame
        \/ DeletePTODelete(s) /\ ConcFrame

SpecPTO == InitPTO /\ [][NextPTO]_vars

----------------------------------------------------------------------------
(* SpecAlloc: the writers of the Allocation table, interleaved over the slots *)

AllocCellArgs ==
    [consultantId : {"c1"}, projectId : {p.id : p \in projects}, weekStart : {3},
     entryType : {"ACTUAL"}, hours : {120}, notes : {UNDEF}]

AllocMassInputs ==
    [consultantIds : {<<"c1">>}, projectId : {SeedProjectId},
     startDate : {3}, endDate : {NoDate, 8}, hours : {480},
     entryType : {"ACTUAL"}, notes : {UNDEF}]

\* one PENDING request of c1, Monday to Friday of week 0; no PTO project yet
InitAlloc ==
    /\ consultants = SeedConsultants
    /\ projects = SeedProjects
    /\ allocations = {}
    /\ ptoRequests = { NewPTORequest(1, AllDay("c1", 1, 5)) }
    /\ nextId = 1
    /\ nextPtoId = 2
    /\ calls = [s \in Slots |-> Idle]
    /\ ret = NoResult
    /\ ptoLog = {}
    /\ hist = NoHist

NextAlloc ==
    \E s \in Slots :
        \/ \E sess \in Sessions, id \in PTOIds : ApproveRead(s, sess, id) /\ ConcFrame
        \/ ApproveFindProject(s) /\ ConcFrame
        \/ ApproveCreateProject(s) /\ ConcFrame
        \/ ApproveUpsert(s) /\ ConcFrame
        \/ ApproveUpdateStatus(s) /\ ConcFrame
        \/ \E sess \in Sessions, a \in AllocCellArgs : UpdateAllocation(s, sess, a) /\ ConcFrame
        \/ \E sess \in Sessions, a \in AllocCellArgs : DeleteAllocation(s, sess, a) /\ ConcFrame
        \/ \E sess \in Sessions, d \in AllocMassInputs : MassStart(s, sess, d) /\ ConcFrame
        \/ MassFindConsultant(s) /\ ConcFrame
        \/ MassFindExisting(s) /\ ConcFrame
        \/ MassWrite(s) /\ ConcFrame

SpecAlloc == InitAlloc /\ [][NextAlloc]_vars

----------------------------------------------------------------------------
(* Serial runs: at most MaxSerialCalls calls, one at a time in slot 1, with
   a history of the finished calls: what was called, what it returned, and
   the Allocation table before and after it *)

Entry(op, arg) ==
    [op |-> op, arg |-> arg, ret |-> ret',
     before |-> allocations, after |-> allocations']

Push(log, e) == Append(log, e)

SerialCaps ==
    /\ nextId' <= MaxSerialRowId + 1
    /\ nextPtoId' <= MaxSerialPTO + 1

\* the first step of a call
SerialStart(op, arg) ==
    /\ SerialCaps
    /\ Len(hist.log) < MaxSerialCalls
    /\ hist' = IF calls'[1].pc = "idle"
               THEN [cur |-> [op |-> "none"], log |-> Push(hist.log, Entry(op, arg))]
               ELSE [cur |-> [op |-> op, arg |-> arg, before |-> allocations],
                     log |-> hist.log]

\* a later step of the call
SerialStep ==
    /\ SerialCaps
    /\ hist' = IF calls'[1].pc = "idle"
               THEN [cur |-> [op |-> "none"],
                     log |-> Push(hist.log,
                                  [Entry(hist.cur.op, hist.cur.arg)
                                      EXCEPT !.before = hist.cur.before])]
               ELSE hist

\* the last finished call and the one before it
Last == hist.log[Len(hist.log)]
Prev == hist.log[Len(hist.log) - 1]

SerialIdle == \A s \in Slots : IsIdle(s)

----------------------------------------------------------------------------
(* SpecApprove: PENDING requests approved one call at a time *)

SerialPTOIds == 1 .. MaxSerialPTO

\* week 0 is days 0..6 (Sunday..Saturday), week 7 is days 7..13
SerialPTOInputs ==
    { AllDay("c1", 1, 5),                        \* Monday to Friday
      AllDay("c1", 1, 2),                        \* Monday, Tuesday
      AllDay("c1", 4, 5),                        \* Thursday, Friday
      AllDay("c1", 5, 8),                        \* Friday to Monday of the next week
      AllDay("c1", 6, 7),                        \* Saturday, Sunday
      AllDay("c2", 3, 3),                        \* another consultant's Wednesday
      AllDay("c1", 9, 3),                        \* end before start
      Timed("c1", 2, 3, <<9, 0>>, <<13, 30>>),   \* 4.5 hours on two days
      Timed("c1", 3, 3, <<13, 0>>, <<9, 0>>),    \* end time before start time
      Timed("c1", 10, 10, NoTime, NoTime) }      \* not all-day, no times

\* MaxSerialPTO PENDING requests, each drawn from SerialPTOInputs; no PTO
\* project and no Allocation row yet
InitApprove ==
    /\ consultants = SeedConsultants
    /\ projects = SeedProjects
    /\ allocations = {}
    /\ \E d \in [SerialPTOIds -> SerialPTOInputs] :
            ptoRequests = { NewPTORequest(i, d[i]) : i \in SerialPTOIds }
    /\ nextId = 1
    /\ nextPtoId = MaxSerialPTO + 1
    /\ calls = [s \in Slots |-> Idle]
    /\ ret = NoResult
    /\ ptoLog = {}
    /\ hist = NoHist

NextApprove ==
    \/ \E sess \in {s \in Sessions : s.role = "MANAGER"}, id \in SerialPTOIds :
            /\ ApproveRead(1, sess, id)
            /\ SerialStart("approve", [sess |-> sess, id |-> id])
    \/ ApproveFindProject(1) /\ SerialStep
    \/ ApproveCreateProject(1) /\ SerialStep
    \/ ApproveUpsert(1) /\ SerialStep
    \/ ApproveUpdateStatus(1) /\ SerialStep

SpecApprove == InitApprove /\ [][NextApprove]_vars

----------------------------------------------------------------------------
(* SpecCell and SpecMass: cell edits, and mass loads, one call at a time *)

EditSessions == { sess \in Sessions : sess.role \in {"NONE", "MANAGER"} }

\* day 10 is a Wednesday: its week starts on day 7
EditCellArgs ==
    [consultantId : {"c1", "cX"}, projectId : {SeedProjectId}, weekStart : {0, 10},
     entryType : {"ACTUAL"}, hours : {0, 120}, notes : {UNDEF, "n"}]

MassInput(ids, end, notes) ==
    [consultantIds |-> ids, projectId |-> SeedProjectId, startDate |-> 3,
     endDate |-> end, hours |-> 480, entryType |-> "ACTUAL", notes |-> notes]

\* one or two consultants over one week (no endDate) or two weeks (day 3 to
\* day 8), with notes omitted, empty or given; one consultant twice; an
\* unknown consultant; end before start
EditMassInputs ==
    { MassInput(ids, end, notes) :
        ids \in {<<"c1">>, <<"c1", "c2">>}, end \in {NoDate, 8}, notes \in {UNDEF, "", "m"} }
    \cup { MassInput(<<"c1", "c1">>, 8, ""),
           MassInput(<<"cX", "c1">>, 8, "m"),
           MassInput(<<"c1">>, 1, UNDEF) }

\* rows stored by earlier cell edits
EditSeedRows ==
    { NewRow("r1", Key("c1", SeedProjectId, 0, "ACTUAL"), 120, "n"),
      NewRow("r2", Key("c2", SeedProjectId, 7, "ACTUAL"), 240, NULL) }

InitEdit ==
    /\ consultants = SeedConsultants
    /\ projects = SeedProjects
    /\ allocations \in SUBSET EditSeedRows
    /\ ptoRequests = {}
    /\ nextId = 1
    /\ nextPtoId = 1
    /\ calls = [s \in Slots |-> Idle]
    /\ ret = NoResult
    /\ ptoLog = {}
    /\ hist = NoHist

NextCell ==
    \/ \E sess \in EditSessions, a \in EditCellArgs :
            /\ UpdateAllocation(1, sess, a)
            /\ SerialStart("updateAllocation", [sess |-> sess, a |-> a])
    \/ \E sess \in EditSessions \ {NoSession}, a \in EditCellArgs :
            /\ DeleteAllocation(1, sess, a)
            /\ SerialStart("deleteAllocation", [sess |-> sess, a |-> a])

SpecCell == InitEdit /\ [][NextCell]_vars

NextMass ==
    \/ \E sess \in EditSessions \ {NoSession}, d \in EditMassInputs :
            /\ MassStart(1, sess, d)
            /\ SerialStart("massLoad", [sess |-> sess, data |-> d])
    \/ MassFindConsultant(1) /\ SerialStep
    \/ MassFindExisting(1) /\ SerialStep
    \/ MassWrite(1) /\ SerialStep

SpecMass == InitEdit /\ [][NextMass]_vars

----------------------------------------------------------------------------
(* The edit surfaces of the grid: WeekCell (components/utilization/week-cell.tsx)
   and WeekCellEditor (components/utilization/week-cell-editor.tsx). A client
   handler issues its server calls one after the other; the calls it has
   still to make are kept in hist.cur.queue *)

Today == 10    \* new Date(): a Wednesday; the current week starts on day 7

CurrentWeekStart == startOfWeek(Today)
isPast(week) == parseISO(week) < CurrentWeekStart
isFuture(week) == parseISO(week) > CurrentWeekStart
isCurrent(week) == ~isPast(week) /\ ~isFuture(week)

\* canEdit of the grid, the `editable` prop of WeekCell
canEdit(sess, viewMode, consultantId) ==
    /\ viewMode # "difference"
    /\ sess.role \in Elevated \/ consultantId = sess.consultantId

\* WeekCell.handleSave without its early return
HandleSaveUnguarded(s, sess, props, edit) ==
    UpdateAllocation(s, sess,
        [consultantId |-> props.consultantId, weekStart |-> props.week,
         projectId |-> edit.projectId, hours |-> edit.hours,
         entryType |-> IF props.viewMode = "projected" THEN "PROJECTED" ELSE "ACTUAL",
         notes |-> UNDEF])

\* WeekCell.handleSave: the quick-add form of a cell
HandleSave(s, sess, props, edit) ==
    IF \/ ~canEdit(sess, props.viewMode, props.consultantId)
       \/ edit.projectId = ""
       \/ edit.hours <= 0
    THEN /\ IsIdle(s)
         /\ UNCHANGED <<db, ptoLog>>
         /\ Returns(s, NoResult)
    ELSE UpdateAllocation(s, sess,
            [consultantId |-> props.consultantId, weekStart |-> props.week,
             projectId |-> edit.projectId, hours |-> edit.hours,
             entryType |-> IF props.viewMode = "projected" THEN "PROJECTED" ELSE "ACTUAL",
             notes |-> UNDEF])

\* the details prop: the rows of the cell as getUtilizationData returned them
Details(store, consultantId, week) ==
    { r \in store : r.consultantId = consultantId /\ r.weekStart = week }

DetailOf(details, projectId, entryType) ==
    { d \in details : d.projectId = projectId /\ d.entryType = entryType }

DetailHours(details, projectId, entryType) ==
    IF DetailOf(details, projectId, entryType) = {} THEN 0
    ELSE (CHOOSE d \in DetailOf(details, projectId, entryType) : TRUE).hours

NotEdited == [present |-> FALSE, actualHours |-> 0, projectedHours |-> 0, notes |-> ""]

\* the notes the useEffect may give the entry of a project: the first
\* non-empty notes among its details, in the order the details came in
GroupedNotes(details, projectId) ==
    LET ns == { d.notes : d \in { e \in details : e.projectId = projectId
                                                  /\ e.notes \notin {NULL, ""} } }
    IN  IF ns = {} THEN {""} ELSE ns

\* editedAllocations as the useEffect initialises it, by project
Grouped(details, projectIds, notesOf) ==
    [ p \in projectIds |->
        IF \E d \in details : d.projectId = p
        THEN [present |-> TRUE,
              actualHours |-> DetailHours(details, p, "ACTUAL"),
              projectedHours |-> DetailHours(details, p, "PROJECTED"),
              notes |-> notesOf[p]]
        ELSE NotEdited ]

DeleteOp(projectId, entryType) ==
    [kind |-> "delete", projectId |-> projectId, entryType |-> entryType,
     hours |-> 0, notes |-> UNDEF]

UpdateOp(projectId, entryType, hours, notes) ==
    [kind |-> "update", projectId |-> projectId, entryType |-> entryType,
     hours |-> hours, notes |-> IF notes = "" THEN UNDEF ELSE notes]

\* handleSaveAll, first loop: the details of a project no longer edited
RemovedOps(details, edited, p) ==
    IF edited[p].present THEN << >>
    ELSE (IF DetailOf(details, p, "ACTUAL") # {} THEN <<DeleteOp(p, "ACTUAL")>> ELSE << >>)
         \o (IF DetailOf(details, p, "PROJECTED") # {} THEN <<DeleteOp(p, "PROJECTED")>>
             ELSE << >>)

\* handleSaveAll, second loop: the calls for one entry of editedAllocations
EditedOps(details, edited, week, p) ==
    LET a == edited[p] IN
    IF ~a.present THEN << >>
    ELSE (IF ~isFuture(week) /\ a.actualHours > 0
          THEN <<UpdateOp(p, "ACTUAL", a.actualHours, a.notes)>>
          ELSE IF ~isFuture(week) /\ a.actualHours = 0
                  /\ DetailOf(details, p, "ACTUAL") # {}
               THEN <<DeleteOp(p, "ACTUAL")>>
               ELSE << >>)
         \o (IF a.projectedHours > 0
             THEN <<UpdateOp(p, "PROJECTED", a.projectedHours, a.notes)>>
             ELSE IF a.projectedHours = 0 /\ DetailOf(details, p, "PROJECTED") # {}
                  THEN <<DeleteOp(p, "PROJECTED")>>
                  ELSE << >>)

RECURSIVE ConcatOver(_, _)
ConcatOver(Op(_), order) ==
    IF order = << >> THEN << >>
    ELSE Op(Head(order)) \o ConcatOver(Op, Tail(order))

\* the server calls of handleSaveAll, in the order it makes them
SaveAllOps(details, edited, week, order) ==
    LET Removed(p) == RemovedOps(details, edited, p)
        Kept(p) == EditedOps(details, edited, week, p)
    IN  ConcatOver(Removed, order) \o ConcatOver(Kept, order)

\* what the inputs of the dialog let editedAllocations become for a project
Editable(details, week, p, notesOf, actualChoices, projectedChoices) ==
    IF \E d \in details : d.projectId = p
    THEN { NotEdited }                                       \* removed
         \cup { [present |-> TRUE, actualHours |-> ah, projectedHours |-> ph,
                 notes |-> notesOf[p]] :
                 ah \in (IF isFuture(week) THEN {} ELSE actualChoices)
                            \cup {DetailHours(details, p, "ACTUAL")},
                 ph \in (IF isPast(week) THEN {} ELSE projectedChoices)
                            \cup {DetailHours(details, p, "PROJECTED")} }
    ELSE { NotEdited }                                       \* never added
         \cup { [present |-> TRUE, actualHours |-> ah, projectedHours |-> ph,
                 notes |-> ""] :
                 ah \in (IF isFuture(week) THEN {0} ELSE actualChoices \cup {0}),
                 ph \in projectedChoices }

\* handleSaveAll: the click; the calls to make are worked out from the props
\* and the state of the dialog
SaveAllClick(sess, consultantId, week, edited, order) ==
    LET details == Details(allocations, consultantId, week)
        queue == SaveAllOps(details, edited, week, order)
        arg == [sess |-> sess, consultantId |-> consultantId, week |-> week,
                edited |-> edited]
    IN  /\ hist.cur.op = "none"
        /\ \A s \in Slots : IsIdle(s)
        /\ UNCHANGED <<db, calls, ret, ptoLog>>
        /\ hist' = IF queue = << >>
                   THEN [cur |-> [op |-> "none"],
                         log |-> Append(hist.log,
                                    [op |-> "handleSaveAll", arg |-> arg, ret |-> NoResult,
                                     before |-> allocations, after |-> allocations])]
                   ELSE [cur |-> [op |-> "handleSaveAll", arg |-> arg,
                                  before |-> allocations, queue |-> queue],
                         log |-> hist.log]

\* handleSaveAll: the next awaited call; a throw ends the handler in its catch
SaveAllCall ==
    /\ hist.cur.op = "handleSaveAll"
    /\ LET c == hist.cur
           o == Head(c.queue)
           a == [consultantId |-> c.arg.consultantId, weekStart |-> c.arg.week,
                 projectId |-> o.projectId, hours |-> o.hours,
                 entryType |-> o.entryType, notes |-> o.notes]
       IN  /\ IF o.kind = "update"
              THEN UpdateAllocation(1, c.arg.sess, a)
              ELSE DeleteAllocation(1, c.arg.sess, a)
           /\ hist' = IF ~ret'.ok \/ Tail(c.queue) = << >>
                      THEN [cur |-> [op |-> "none"],
                            log |-> Append(hist.log,
                                       [op |-> "handleSaveAll", arg |-> c.arg, ret |-> ret',
                                        before |-> c.before, after |-> allocations'])]
                      ELSE [hist EXCEPT !.cur.queue = Tail(c.queue)]

----------------------------------------------------------------------------
(* Utilization status: getUtilizationStatus (lib/utils, part_001). Hours are
   whole minutes here and in steps of a quarter of an hour, values a double
   holds exactly; the quotient of two such values below 2^26 and the
   literals 0.9 and 1.1 compare as the fractions n/d, 9/10 and 11/10 do,
   because a correctly rounded n/d equals the double 0.9 only if n/d = 9/10 *)

UnderTenths == 9     \* ratio < 0.9
OverTenths == 11     \* ratio > 1.1
Tenths == 10

\* hours / standardHours: a fraction, or what a division by zero gives
Ratio(hours, standardHours) ==
    IF standardHours # 0
    THEN [kind |-> "finite", n |-> hours, d |-> standardHours]
    ELSE [kind |-> IF hours > 0 THEN "+Infinity"
                   ELSE IF hours < 0 THEN "-Infinity" ELSE "NaN",
          n |-> 0, d |-> 0]

\* ratio < tenths / 10
RatioBelow(r, tenths) ==
    CASE r.kind = "finite" ->
            IF r.d > 0 THEN r.n * Tenths < tenths * r.d
                       ELSE r.n * Tenths > tenths * r.d
      [] r.kind = "-Infinity" -> TRUE
      [] OTHER -> FALSE

\* ratio > tenths / 10
RatioAbove(r, tenths) ==
    CASE r.kind = "finite" ->
            IF r.d > 0 THEN r.n * Tenths > tenths * r.d
                       ELSE r.n * Tenths < tenths * r.d
      [] r.kind = "+Infinity" -> TRUE
      [] OTHER -> FALSE

\* variant: the thresholds themselves are under and over
getUtilizationStatusInclusive(hours, standardHours) ==
    LET ratio == Ratio(hours, standardHours)
    IN  IF ~RatioAbove(ratio, UnderTenths) THEN "under"
        ELSE IF ~RatioBelow(ratio, OverTenths) THEN "over"
        ELSE "normal"

getUtilizationStatus(hours, standardHours) ==
    LET ratio == Ratio(hours, standardHours)
    IN  IF RatioBelow(ratio, UnderTenths) THEN "under"
        ELSE IF RatioAbove(ratio, OverTenths) THEN "over"
        ELSE "normal"

\* the status of one cell value is worked out
StatusCall(hours, standardHours) ==
    /\ \A s \in Slots : IsIdle(s)
    /\ UNCHANGED <<db, calls, ptoLog, hist>>
    /\ ret' = [ok |-> TRUE, op |-> "getUtilizationStatus", hours |-> hours,
               standardHours |-> standardHours,
               status |-> getUtilizationStatus(hours, standardHours)]

\* getWeeksInRange(startDate, endDate) is called
WeeksCall(start, end) ==
    /\ \A s \in Slots : IsIdle(s)
    /\ UNCHANGED <<db, calls, ptoLog, hist>>
    /\ \/ /\ IntervalMayThrow(start, end)
          /\ ret' = [ok |-> FALSE, op |-> "getWeeksInRange", start |-> start,
                     end |-> end, weeks |-> << >>]
       \/ ret' = [ok |-> TRUE, op |-> "getWeeksInRange", start |-> start,
                  end |-> end, weeks |-> getWeeksInRange(start, end)]

----------------------------------------------------------------------------
(* The grid query: getUtilizationData (app/actions, part_008). Dates and
   their yyyy-MM-dd strings are both whole UTC days *)

\* date.toISOString().split("T")[0]
formatDateUTC(date) == date

endOfWeek(d) == startOfWeek(d) + 6

\* getDefaultDateRange(): four weeks back, eight weeks ahead
getDefaultDateRange ==
    [start |-> startOfWeek(Today) - 4 * 7, end |-> endOfWeek(Today) + 8 * 7]

\* start and end of getUtilizationData(startDate, endDate)
UtilRange(startDate, endDate) ==
    [start |-> IF startDate # NoDate THEN parseISO(startDate) ELSE getDefaultDateRange.start,
     end |-> IF endDate # NoDate THEN parseISO(endDate) ELSE getDefaultDateRange.end]

RECURSIVE SumHours(_)
SumHours(rows) ==
    IF rows = {} THEN 0
    ELSE LET r == CHOOSE x \in rows : TRUE
         IN  r.hours + SumHours(rows \ {r})

\* one line of details
DetailLine(r) ==
    [projectId |-> r.projectId, hours |-> r.hours, entryType |-> r.entryType,
     notes |-> r.notes]

\* the lines pushed for the rows, in the order findMany returned them
RECURSIVE DetailLines(_)
DetailLines(rows) ==
    IF rows = {} THEN << >>
    ELSE LET r == CHOOSE x \in rows : TRUE
         IN  <<DetailLine(r)>> \o DetailLines(rows \ {r})

\* the cell of (c, week) after the loop over the rows found
UtilCell(found, c, week) ==
    LET rows == { r \in found : r.consultantId = c /\ formatDateUTC(r.weekStart) = week }
    IN  [actual |-> SumHours({ r \in rows : r.entryType = "ACTUAL" }),
         projected |-> SumHours({ r \in rows : r.entryType # "ACTUAL" }),
         details |-> DetailLines(rows)]

\* variant: a cell only where a row was found
AllocationMapSparse(cons, weekStrings, found) ==
    [ c \in cons |->
        [ week \in { formatDateUTC(r.weekStart) : r \in { x \in found : x.consultantId = c } }
                   \cap { weekStrings[i] : i \in DOMAIN weekStrings }
            |-> UtilCell(found, c, week) ] ]

\* allocationMap: a zero cell per consultant and week, then the rows found
AllocationMap(cons, weekStrings, found) ==
    [ c \in cons |->
        [ week \in { weekStrings[i] : i \in DOMAIN weekStrings }
            |-> UtilCell(found, c, week) ] ]

\* the query of the rows: weekStart: { gte: start, lte: end }
FindInRange(store, start, end) ==
    { r \in store : r.weekStart >= start /\ r.weekStart <= end }

UtilizationData(store, cons, start, end) ==
    LET weeks == getWeeksInRange(start, end)
        weekStrings == [ i \in DOMAIN weeks |-> formatDateUTC(weeks[i]) ]
    IN  [ok |-> TRUE,
         consultants |-> cons,
         weeks |-> weekStrings,
         allocations |-> AllocationMap(cons, weekStrings, FindInRange(store, start, end))]

\* getUtilizationData(startDate, endDate)
GetUtilizationData(s, sess, startDate, endDate) ==
    LET range == UtilRange(startDate, endDate)
    IN  /\ IsIdle(s)
        /\ UNCHANGED <<db, ptoLog>>
        /\ \/ /\ sess = NoSession \/ IntervalMayThrow(range.start, range.end)
              /\ Throws(s)
           \/ /\ sess # NoSession
              /\ Returns(s, UtilizationData(allocations, consultants, range.start, range.end))

----------------------------------------------------------------------------
(* SpecGrid: one edit of a cell, through a server action or an edit surface,
   from a store that earlier edits, mass loads and approvals left *)

GridProjectOrder == <<SeedProjectId, "tech">>
GridProjects == SeedProjects \cup { [id |-> "tech", timecode |-> "TECH-MOB-001"] }
GridProjectIds == { p.id : p \in GridProjects }

GridWeeks == { 0, CurrentWeekStart, 14 }     \* a past, the current, a future week

GridSessions == { sess \in Sessions : sess.role = "MANAGER"
                                    \/ (sess.role = "EMPLOYEE" /\ sess.consultantId = NULL) }

GridSeedRows ==
    { NewRow("r1", Key("c1", SeedProjectId, 0, "ACTUAL"), 120, "n"),
      NewRow("r2", Key("c1", SeedProjectId, 0, "PROJECTED"), 480, NULL),
      NewRow("r3", Key("c1", SeedProjectId, 14, "ACTUAL"), 480, "PTO"),
      NewRow("r4", Key("c1", "tech", 14, "PROJECTED"), 240, NULL) }

GridCellArgs ==
    [consultantId : {"c1"}, projectId : {SeedProjectId}, weekStart : {0, 14},
     entryType : EntryTypes, hours : {120}, notes : {UNDEF}]

GridProps == [consultantId : {"c1"}, week : GridWeeks,
              viewMode : {"actual", "projected", "difference"}]

GridQuickAdd == [projectId : {"", SeedProjectId}, hours : {0, 120}]

InitGrid ==
    /\ consultants = SeedConsultants
    /\ projects = GridProjects
    /\ allocations \in SUBSET GridSeedRows
    /\ ptoRequests = {}
    /\ nextId = 1
    /\ nextPtoId = 1
    /\ calls = [s \in Slots |-> Idle]
    /\ ret = NoResult
    /\ ptoLog = {}
    /\ hist = NoHist

\* the dialog state a user can bring about for the cell of a week
GridEdits(details, week) ==
    { [p \in GridProjectIds |-> IF p = SeedProjectId THEN e1 ELSE e2] :
        e1 \in UNION { Editable(details, week, SeedProjectId,
                                [p \in GridProjectIds |-> n], {0, 120}, {0, 480}) :
                       n \in GroupedNotes(details, SeedProjectId) },
        e2 \in UNION { Editable(details, week, "tech",
                                [p \in GridProjectIds |-> n], {0, 120}, {0, 480}) :
                       n \in GroupedNotes(details, "tech") } }

\* one call, or one click, per behaviour
NextGrid ==
    \/ /\ hist.log = << >>
       /\ \E sess \in GridSessions, a \in GridCellArgs :
            /\ UpdateAllocation(1, sess, a)
            /\ SerialStart("updateAllocation", [sess |-> sess, a |-> a])
    \/ /\ hist.log = << >>
       /\ \E sess \in GridSessions, a \in GridCellArgs :
            /\ DeleteAllocation(1, sess, a)
            /\ SerialStart("deleteAllocation", [sess |-> sess, a |-> a])
    \/ /\ hist.log = << >>
       /\ \E sess \in GridSessions, props \in GridProps, edit \in GridQuickAdd :
            /\ HandleSave(1, sess, props, edit)
            /\ SerialStart("handleSave", [sess |-> sess, props |-> props, edit |-> edit])
    \/ /\ hist.log = << >>
       /\ \E sess \in GridSessions, week \in GridWeeks :
            \E edited \in GridEdits(Details(allocations, "c1", week), week) :
                /\ SaveAllClick(sess, "c1", week, edited, GridProjectOrder)
                /\ SerialCaps
    \/ SaveAllCall /\ SerialCaps

SpecGrid == InitGrid /\ [][NextGrid]_vars

----------------------------------------------------------------------------
(* SpecCellAuth: the cell actions called one at a time by every kind of
   caller, for their own and for another consultant's cells *)

CellAuthArgs ==
    [consultantId : {"c1", "c2"}, projectId : {SeedProjectId}, weekStart : {0},
     entryType : {"ACTUAL"}, hours : {120}, notes : {UNDEF}]

CellAuthSeedRows ==
    { NewRow("r1", Key("c1", SeedProjectId, 0, "ACTUAL"), 480, NULL),
      NewRow("r2", Key("c2", SeedProjectId, 0, "ACTUAL"), 240, NULL) }

InitCellAuth ==
    /\ consultants = SeedConsultants
    /\ projects = SeedProjects
    /\ allocations \in SUBSET CellAuthSeedRows
    /\ ptoRequests = {}
    /\ nextId = 1
    /\ nextPtoId = 1
    /\ calls = [s \in Slots |-> Idle]
    /\ ret = NoResult
    /\ ptoLog = {}
    /\ hist = NoHist

NextCellAuth ==
    \/ \E sess \in Sessions, a \in CellAuthArgs :
            /\ UpdateAllocation(1, sess, a)
            /\ SerialStart("updateAllocation", [sess |-> sess, a |-> a])
    \/ \E sess \in Sessions, a \in CellAuthArgs :
            /\ DeleteAllocation(1, sess, a)
            /\ SerialStart("deleteAllocation", [sess |-> sess, a |-> a])

SpecCellAuth == InitCellAuth /\ [][NextCellAuth]_vars

----------------------------------------------------------------------------
(* SpecHours: the three writers of hours called one at a time by a manager,
   with negative, zero and positive amounts *)

HoursSession == [role |-> "MANAGER", consultantId |-> NULL]

HoursCellArgs ==
    [consultantId : {"c1"}, projectId : {SeedProjectId}, weekStart : {0},
     entryType : {"ACTUAL"}, hours : {-60, 0, 120}, notes : {UNDEF}]

\* -1 h, 0 h, half an hour, 8 h
HoursMassInputs ==
    { [MassInput(<<"c1">>, NoDate, UNDEF) EXCEPT !.hours = h] : h \in {-60, 0, 30, 480} }

\* request 1 ends at 09:00 and starts at 17:00 on Monday and Tuesday; request
\* 2 is all-day, on the same days or on a Saturday and Sunday
HoursPTOInputs ==
    { <<Timed("c1", 1, 2, <<17, 0>>, <<9, 0>>), d>> :
        d \in { AllDay("c1", 1, 2), AllDay("c1", 6, 7) } }

InitHours ==
    /\ consultants = SeedConsultants
    /\ projects = SeedProjects
    /\ allocations \in SUBSET { NewRow("r1", Key("c1", SeedProjectId, 0, "ACTUAL"), 120, NULL) }
    /\ \E d \in HoursPTOInputs :
            ptoRequests = { NewPTORequest(i, d[i]) : i \in 1 .. 2 }
    /\ nextId = 1
    /\ nextPtoId = 3
    /\ calls = [s \in Slots |-> Idle]
    /\ ret = NoResult
    /\ ptoLog = {}
    /\ hist = NoHist

NextHours ==
    \/ \E a \in HoursCellArgs :
            /\ UpdateAllocation(1, HoursSession, a)
            /\ SerialStart("updateAllocation", [sess |-> HoursSession, a |-> a])
    \/ \E d \in HoursMassInputs :
            /\ MassStart(1, HoursSession, d)
            /\ SerialStart("massLoad", [sess |-> HoursSession, data |-> d])
    \/ MassFindConsultant(1) /\ SerialStep
    \/ MassFindExisting(1) /\ SerialStep
    \/ MassWrite(1) /\ SerialStep
    \/ \E id \in 1 .. 2 :
            /\ ApproveRead(1, HoursSession, id)
            /\ SerialStart("approve", [sess |-> HoursSession, id |-> id])
    \/ ApproveFindProject(1) /\ SerialStep
    \/ ApproveCreateProject(1) /\ SerialStep
    \/ ApproveUpsert(1) /\ SerialStep
    \/ ApproveUpdateStatus(1) /\ SerialStep

SpecHours == InitHours /\ [][NextHours]_vars

----------------------------------------------------------------------------
(* SpecUtil: the grid fetched for several ranges, between edits of a cell *)

UtilSessions == { sess \in Sessions : sess.role \in {"NONE", "MANAGER"} }

\* Sunday to Sunday; Wednesday to Monday; one Sunday; Monday to Wednesday of
\* a later week; end before start; the default range
UtilRanges ==
    { <<0, 14>>, <<3, 8>>, <<7, 7>>, <<1, 10>>, <<8, 3>>, <<NoDate, NoDate>> }

UtilSeedRows ==
    { NewRow("r1", Key("c1", SeedProjectId, 0, "ACTUAL"), 120, "n"),
      NewRow("r2", Key("c1", "tech", 0, "ACTUAL"), 240, NULL),
      NewRow("r3", Key("c1", SeedProjectId, 0, "PROJECTED"), 480, NULL),
      NewRow("r4", Key("c2", SeedProjectId, 7, "ACTUAL"), 480, NULL),
      NewRow("r5", Key("c1", SeedProjectId, 14, "PROJECTED"), 480, NULL) }

UtilCellArgs ==
    [consultantId : {"c1"}, projectId : {"tech"}, weekStart : {3, 10},
     entryType : {"ACTUAL"}, hours : {60}, notes : {UNDEF}]

InitUtil ==
    /\ consultants = SeedConsultants
    /\ projects = GridProjects
    /\ allocations \in SUBSET UtilSeedRows
    /\ ptoRequests = {}
    /\ nextId = 1
    /\ nextPtoId = 1
    /\ calls = [s \in Slots |-> Idle]
    /\ ret = NoResult
    /\ ptoLog = {}
    /\ hist = NoHist

NextUtil ==
    \/ \E sess \in UtilSessions, r \in UtilRanges :
            /\ GetUtilizationData(1, sess, r[1], r[2])
            /\ SerialStart("getUtilizationData",
                           [sess |-> sess, startDate |-> r[1], endDate |-> r[2]])
    \/ \E sess \in UtilSessions \ {NoSession}, a \in UtilCellArgs :
            /\ UpdateAllocation(1, sess, a)
            /\ SerialStart("updateAllocation", [sess |-> sess, a |-> a])

SpecUtil == InitUtil /\ [][NextUtil]_vars

----------------------------------------------------------------------------
(* SpecStatus: the status of cell values around the thresholds *)

\* from -1 h to MaxQuarterHours quarters of an hour, in minutes
StatusHours == { q * 15 : q \in -4 .. MaxQuarterHours }

\* z.number().min(0).max(80): 0, 32, 37.5 and 40 hours, in minutes
StatusStandardHours == { 0, 32 * MinutesPerHour, 2250, 40 * MinutesPerHour }

InitStatus ==
    /\ consultants = SeedConsultants
    /\ projects = SeedProjects
    /\ allocations = {}
    /\ ptoRequests = {}
    /\ nextId = 1
    /\ nextPtoId = 1
    /\ calls = [s \in Slots |-> Idle]
    /\ ret = NoResult
    /\ ptoLog = {}
    /\ hist = NoHist

NextStatus ==
    \E hours \in StatusHours, standardHours \in StatusStandardHours :
        StatusCall(hours, standardHours)

SpecStatus == InitStatus /\ [][NextStatus]_vars

----------------------------------------------------------------------------
(* SpecWeeks: the weeks of every range of days 0 .. MaxRangeDay *)

RangeDays == 0 .. MaxRangeDay

NextWeeks ==
    \E start \in RangeDays, end \in RangeDays : WeeksCall(start, end)

SpecWeeks == InitStatus /\ [][NextWeeks]_vars

----------------------------------------------------------------------------
(* SpecDelete: consultants and projects deleted while cells are written *)

DeleteSessions == { sess \in Sessions : sess.role \in {"ADMIN", "MANAGER"} }

DeleteCellArgs ==
    [consultantId : {"c1"}, projectId : {SeedProjectId, "tech"}, weekStart : {3},
     entryType : {"ACTUAL"}, hours : {120}, notes : {UNDEF}]

DeleteMassInputs == { MassInput(<<"c1", "c2">>, NoDate, UNDEF) }

InitDelete ==
    /\ consultants = SeedConsultants
    /\ projects = GridProjects
    /\ allocations \in SUBSET EditSeedRows
    /\ ptoRequests = {}
    /\ nextId = 1
    /\ nextPtoId = 1
    /\ calls = [s \in Slots |-> Idle]
    /\ ret = NoResult
    /\ ptoLog = {}
    /\ hist = NoHist

\* the caller of the writes
DeleteWriter == [role |-> "MANAGER", consultantId |-> NULL]

NextDelete ==
    \E s \in Slots :
        \/ \E sess \in DeleteSessions, id \in SeedConsultants :
                DeleteConsultantCount(s, sess, id) /\ ConcFrame
        \/ DeleteConsultantDelete(s) /\ ConcFrame
        \/ \E sess \in DeleteSessions, id \in GridProjectIds :
                DeleteProjectCount(s, sess, id) /\ ConcFrame
        \/ DeleteProjectDelete(s) /\ ConcFrame
        \/ \E a \in DeleteCellArgs : UpdateAllocation(s, DeleteWriter, a) /\ ConcFrame
        \/ \E a \in DeleteCellArgs : DeleteAllocation(s, DeleteWriter, a) /\ ConcFrame
        \/ \E d \in DeleteMassInputs : MassStart(s, DeleteWriter, d) /\ ConcFrame
        \/ MassFindConsultant(s) /\ ConcFrame
        \/ MassFindExisting(s) /\ ConcFrame
        \/ MassWrite(s) /\ ConcFrame

SpecDelete == InitDelete /\ [][NextDelete]_vars

----------------------------------------------------------------------------
(* SpecEditor: the WeekCellEditor of the current week's cell of c1, opened on
   the stored rows and saved once *)

EditorWeek == CurrentWeekStart

\* the ACTUAL and the PROJECTED row of one project carry different notes
EditorSeedRows ==
    { NewRow("r1", Key("c1", SeedProjectId, EditorWeek, "ACTUAL"), 120, "a"),
      NewRow("r2", Key("c1", SeedProjectId, EditorWeek, "PROJECTED"), 480, "p"),
      NewRow("r3", Key("c1", "tech", EditorWeek, "ACTUAL"), 240, NULL),
      NewRow("r4", Key("c2", SeedProjectId, EditorWeek, "ACTUAL"), 480, NULL) }

\* the user who saves: a manager, or the employee linked to c1
EditorSessions == { sess \in Sessions : sess.role = "MANAGER"
                                      \/ sess.consultantId = "c1" }

\* editedAllocations as the useEffect set it, or after the user's edits:
\* hours typed into the inputs pass through parseFloat(value) || 0
EditorEdits(details) ==
    { [p \in GridProjectIds |-> IF p = SeedProjectId THEN e1 ELSE e2] :
        e1 \in UNION { Editable(details, EditorWeek, SeedProjectId,
                                [p \in GridProjectIds |-> n], {-60, 0, 120}, {0, 480}) :
                       n \in GroupedNotes(details, SeedProjectId) },
        e2 \in UNION { Editable(details, EditorWeek, "tech",
                                [p \in GridProjectIds |-> n], {0, 120}, {-60, 0, 480}) :
                       n \in GroupedNotes(details, "tech") } }

InitEditor ==
    /\ consultants = SeedConsultants
    /\ projects = GridProjects
    /\ allocations \in SUBSET EditorSeedRows
    /\ ptoRequests = {}
    /\ nextId = 1
    /\ nextPtoId = 1
    /\ calls = [s \in Slots |-> Idle]
    /\ ret = NoResult
    /\ ptoLog = {}
    /\ hist = NoHist

NextEditor ==
    \/ /\ hist.log = << >>
       /\ \E sess \in EditorSessions :
            \E edited \in EditorEdits(Details(allocations, "c1", EditorWeek)) :
                /\ SaveAllClick(sess, "c1", EditorWeek, edited, GridProjectOrder)
                /\ SerialCaps
    \/ SaveAllCall /\ SerialCaps

SpecEditor == InitEditor /\ [][NextEditor]_vars

----------------------------------------------------------------------------
(* SpecTwoApprovals: two PENDING requests of c1 approved at the same time,
   request 1 in slot 1 and request 2 in slot 2, with and without a PTO
   project to start from *)

\* Monday-Tuesday and Wednesday-Friday of week 0; Thursday-Monday and the
\* Monday-Tuesday after; Monday-Friday and four hours on that Monday
TwoApprovalInputs ==
    { <<AllDay("c1", 1, 2), AllDay("c1", 3, 5)>>,
      <<AllDay("c1", 4, 8), AllDay("c1", 8, 9)>>,
      <<AllDay("c1", 1, 5), Timed("c1", 1, 1, <<9, 0>>, <<13, 0>>)>> }

TwoApprovalSessions == { sess \in Sessions : sess.role \in {"MANAGER", "EMPLOYEE"} }

InitTwoApprovals ==
    /\ consultants = SeedConsultants
    /\ projects \in { SeedProjects, SeedProjects \cup { PTOSinkProject("pto") } }
    /\ allocations = {}
    /\ \E d \in TwoApprovalInputs :
            ptoRequests = { NewPTORequest(i, d[i]) : i \in 1 .. 2 }
    /\ nextId = 1
    /\ nextPtoId = 3
    /\ calls = [s \in Slots |-> Idle]
    /\ ret = NoResult
    /\ ptoLog = {}
    /\ hist = NoHist

\* the cap on generated ids; no request is created
TwoApprovalsFrame ==
    /\ nextId' <= MaxRowId + 1
    /\ UNCHANGED hist

NextTwoApprovals ==
    \E s \in Slots :
        \/ \E sess \in TwoApprovalSessions : ApproveRead(s, sess, s) /\ TwoApprovalsFrame
        \/ ApproveFindProject(s) /\ TwoApprovalsFrame
        \/ ApproveCreateProject(s) /\ TwoApprovalsFrame
        \/ ApproveUpsert(s) /\ TwoApprovalsFrame
        \/ ApproveUpdateStatus(s) /\ TwoApprovalsFrame

SpecTwoApprovals == InitTwoApprovals /\ [][NextTwoApprovals]_vars

----------------------------------------------------------------------------
(* SpecPreview: previewMassLoad, then createMassLoad with the same input
   and session, one call at a time *)

\* the input of the preview that just ended
Previewed == hist.log # << >> /\ Last.op = "preview"

NextPreview ==
    \/ \E sess \in EditSessions \ {NoSession}, d \in EditMassInputs :
            /\ PreviewStart(1, sess, d)
            /\ SerialStart("preview", [sess |-> sess, data |-> d])
    \/ PreviewProject(1) /\ SerialStep
    \/ /\ Previewed
       /\ MassStart(1, Last.arg.sess, Last.arg.data)
       /\ SerialStart("massLoad", Last.arg)
    \/ MassFindConsultant(1) /\ SerialStep
    \/ MassFindExisting(1) /\ SerialStep
    \/ MassWrite(1) /\ SerialStep

SpecPreview == InitEdit /\ [][NextPreview]_vars

----------------------------------------------------------------------------
(* SpecTotals: one PENDING request over any range of days up to
   MaxRangeDay, all-day or timed, approved by a manager *)

\* 8 hours a day; 09:00-13:30; 08:45-09:15
TotalsInputs ==
    { AllDay("c1", from, to) : from \in RangeDays, to \in RangeDays }
    \cup { Timed("c1", from, to, <<9, 0>>, <<13, 30>>) : from \in {0, 3, 5}, to \in RangeDays }
    \cup { Timed("c1", from, to, <<8, 45>>, <<9, 15>>) : from \in {4}, to \in {4, 12} }

InitTotals ==
    /\ consultants = SeedConsultants
    /\ projects = SeedProjects
    /\ allocations = {}
    /\ \E d \in TotalsInputs : ptoRequests = { NewPTORequest(1, d) }
    /\ nextId = 1
    /\ nextPtoId = 2
    /\ calls = [s \in Slots |-> Idle]
    /\ ret = NoResult
    /\ ptoLog = {}
    /\ hist = NoHist

NextTotals ==
    \/ \E sess \in {s \in Sessions : s.role = "MANAGER"} :
            /\ ApproveRead(1, sess, 1)
            /\ SerialStart("approve", [sess |-> sess, id |-> 1])
    \/ ApproveFindProject(1) /\ SerialStep
    \/ ApproveCreateProject(1) /\ SerialStep
    \/ ApproveUpsert(1) /\ SerialStep
    \/ ApproveUpdateStatus(1) /\ SerialStep

SpecTotals == InitTotals /\ [][NextTotals]_vars

----------------------------------------------------------------------------
(* SpecAuth: the actions for elevated roles, called one at a time by every
   kind of caller *)

\* two consultants over two weeks; an unknown consultant; hours below the
\* minimum; end before start
AuthMassInputs ==
    { MassInput(<<"c1", "c2">>, 8, UNDEF),
      MassInput(<<"cX", "c1">>, NoDate, "m"),
      [MassInput(<<"c1">>, NoDate, UNDEF) EXCEPT !.hours = 0],
      MassInput(<<"c1">>, 1, UNDEF) }

\* no session, an employee, a manager, an administrator
AuthSessions == { sess \in Sessions : sess.role = "EMPLOYEE" => sess.consultantId = "c1" }

\* one PENDING request of c1, Monday to Friday of week 0
InitAuth ==
    /\ consultants = SeedConsultants
    /\ projects = SeedProjects
    /\ allocations \in {{}, EditSeedRows}
    /\ ptoRequests = { NewPTORequest(1, AllDay("c1", 1, 5)) }
    /\ nextId = 1
    /\ nextPtoId = 2
    /\ calls = [s \in Slots |-> Idle]
    /\ ret = NoResult
    /\ ptoLog = {}
    /\ hist = NoHist

NextAuth ==
    \/ \E sess \in AuthSessions :
            /\ ApproveRead(1, sess, 1)
            /\ SerialStart("approve", [sess |-> sess, id |-> 1])
    \/ ApproveFindProject(1) /\ SerialStep
    \/ ApproveCreateProject(1) /\ SerialStep
    \/ ApproveUpsert(1) /\ SerialStep
    \/ ApproveUpdateStatus(1) /\ SerialStep
    \/ \E sess \in AuthSessions :
            /\ DenyRead(1, sess, 1)
            /\ SerialStart("deny", [sess |-> sess, id |-> 1])
    \/ DenyUpdateStatus(1) /\ SerialStep
    \/ \E sess \in AuthSessions, d \in AuthMassInputs :
            /\ MassStart(1, sess, d)
            /\ SerialStart("massLoad", [sess |-> sess, data |-> d])
    \/ MassFindConsultant(1) /\ SerialStep
    \/ MassFindExisting(1) /\ SerialStep
    \/ MassWrite(1) /\ SerialStep
    \/ \E sess \in AuthSessions, d \in AuthMassInputs :
            /\ PreviewStart(1, sess, d)
            /\ SerialStart("preview", [sess |-> sess, data |-> d])
    \/ PreviewProject(1) /\ SerialStep

SpecAuth == InitAuth /\ [][NextAuth]_vars

----------------------------------------------------------------------------
(* SpecRace: one mass load in slot 1 while cells are edited in slot 2 *)

RaceSession == [role |-> "MANAGER", consultantId |-> NULL]

\* an unknown consultant, then c1, over two weeks; c1 and c2 over one week
RaceMassInputs ==
    { MassInput(<<"cX", "c1">>, 8, UNDEF), MassInput(<<"c1", "c2">>, NoDate, UNDEF) }

RaceCellArgs ==
    [consultantId : {"c1"}, projectId : {SeedProjectId}, weekStart : {3},
     entryType : {"ACTUAL"}, hours : {120}, notes : {UNDEF}]

NextRace ==
    \/ \E d \in RaceMassInputs : MassStart(1, RaceSession, d) /\ ConcFrame
    \/ MassFindConsultant(1) /\ ConcFrame
    \/ MassFindExisting(1) /\ ConcFrame
    \/ MassWrite(1) /\ ConcFrame
    \/ \E a \in RaceCellArgs : UpdateAllocation(2, RaceSession, a) /\ ConcFrame
    \/ \E a \in RaceCellArgs : DeleteAllocation(2, RaceSession, a) /\ ConcFrame

SpecRace == InitEdit /\ [][NextRace]_vars

----------------------------------------------------------------------------
(* Claims on the concurrent specifications *)

\* C1: in every reachable state of SpecAlloc (updateAllocation,
\* deleteAllocation, createMassLoad and approvePTORequest interleaved) the
\* Allocation table holds at most one row per (consultant, project,
\* week-start, entry-type).
C1_UniqueKey ==
    \A r1 \in allocations : \A r2 \in allocations :
        KeyOf(r1) = KeyOf(r2) => r1 = r2

\* C1 witness: createMassLoad found no row for its pair, another call has
\* since stored one under that key, and the create is about to run.
C1_Witness ==
    \E s \in Slots :
        /\ calls[s].pc = "write"
        /\ calls[s].existing = {}
        /\ RowsAt(allocations, MassKey(calls[s])) # {}

Terminal == {"APPROVED", "DENIED"}

\* C2 (as claimed): approve or deny of a request that is not PENDING throws
\* and changes no table, and a stored APPROVED or DENIED status is never
\* replaced by another status.
C2_TerminalStatus ==
    [][ /\ \A s \in Slots, sess \in Sessions, id \in PTOIds :
              ( /\ ApproveRead(s, sess, id) \/ DenyRead(s, sess, id)
                /\ \E p \in PTOById(id) : p.status # "PENDING" )
              => (~ret'.ok /\ IsIdle(s)' /\ UNCHANGED db)
        /\ \A p \in ptoRequests : \A q \in ptoRequests' :
              (p.status \in Terminal /\ q.id = p.id) => q.status = p.status
      ]_vars

\* C3 (as claimed): every request is set to APPROVED at most once and every
\* week of it is upserted at most once.
C3_ApprovedOnce == \A e \in ptoLog : e.n <= 1

\* C6 (as claimed): denyPTORequest changes no Allocation and no Project row,
\* and no request is DENIED with hours of it written to the Allocation table.
C6_DeniedWroteNothing ==
    [][ /\ \A s \in Slots :
              DenyUpdateStatus(s) => UNCHANGED <<allocations, projects>>
        /\ \A s \in Slots, sess \in Sessions, id \in PTOIds :
              DenyRead(s, sess, id) => UNCHANGED <<allocations, projects>>
        /\ \A p \in ptoRequests' :
              p.status = "DENIED" =>
                  ~(\E e \in ptoLog' : e.id = p.id /\ e.ev = "upsert")
      ]_vars

\* what deletePTORequest requires of its caller and of the request it reads
MayDeletePTO(sess, p) ==
    /\ sess # NoSession
    /\ p.status = "PENDING"
    /\ \/ sess.role \in Elevated
       \/ sess.role = "EMPLOYEE" /\ sess.consultantId = p.consultantId

----------------------------------------------------------------------------
(* Claims on the serial approvals *)

Days == 0 .. 20
Sundays == { d \in Days : getDay(d) = 0 }

PTOProjectIds == { p.id : p \in { q \in projects : q.timecode = PTO_TIMECODE } }

HoursAt(store, k) ==
    IF RowsAt(store, k) = {} THEN 0 ELSE (CHOOSE r \in RowsAt(store, k) : TRUE).hours

\* Monday-to-Friday days of the request inside the week w .. w + 6, times hoursPerDay
ContributionTo(pto, w) ==
    Cardinality({ d \in pto.startDate .. pto.endDate :
                    w <= d /\ d <= w + 6 /\ getDay(d) \in 1 .. 5 }) * HoursPerDay(pto)

Request(id) == CHOOSE p \in ptoRequests : p.id = id

ApprovedLast == SerialIdle /\ hist.log # << >> /\ Last.op = "approve" /\ Last.ret.ok

\* the rows a call stored or changed, and the rows it changed or removed
Written(e) == e.after \ e.before
Replaced(e) == e.before \ e.after

\* C4: after two approvals in a row of two non-overlapping requests of one
\* consultant, every week both contribute to has a single ACTUAL row on the
\* PTO project, holding what it held before plus both weekly contributions.
C4_AdditiveUpsert ==
    ( /\ ApprovedLast
      /\ Len(hist.log) >= 2
      /\ Prev.op = "approve"
      /\ Prev.ret.ok ) =>
        LET p1 == Request(Prev.arg.id)
            p2 == Request(Last.arg.id)
        IN  ( /\ p1.consultantId = p2.consultantId
              /\ p1.id # p2.id
              /\ p1.endDate < p2.startDate \/ p2.endDate < p1.startDate ) =>
                \A proj \in PTOProjectIds, w \in Sundays :
                    (ContributionTo(p1, w) > 0 /\ ContributionTo(p2, w) > 0) =>
                        LET k == Key(p1.consultantId, proj, w, "ACTUAL")
                        IN  /\ Cardinality(RowsAt(allocations, k)) = 1
                            /\ HoursAt(allocations, k) =
                                 HoursAt(Prev.before, k)
                                    + ContributionTo(p1, w) + ContributionTo(p2, w)

\* C4 witness: Monday-Tuesday, then Thursday-Friday of the same week were
\* approved for c1, and the week holds 4 days of 8 hours.
C4_Witness ==
    /\ ApprovedLast
    /\ Len(hist.log) >= 2
    /\ Prev.op = "approve" /\ Prev.ret.ok
    /\ Request(Prev.arg.id).startDate = 1 /\ Request(Prev.arg.id).endDate = 2
    /\ Request(Last.arg.id).startDate = 4 /\ Request(Last.arg.id).endDate = 5
    /\ \E r \in allocations :
            r.weekStart = 0 /\ r.hours = 4 * DefaultHoursPerDay * MinutesPerHour

\* C5: a finished approval added to the ACTUAL row of the PTO project of
\* every Sunday w exactly (Monday-to-Friday days of the request inside
\* w .. w + 6) * hoursPerDay where that is positive, and stored or changed no
\* other row; the all-day Monday-to-Friday request added 40 hours to one row.
C5_WeeklyHours ==
    ApprovedLast =>
        LET p == Request(Last.arg.id)
            Touched == { Key(p.consultantId, proj, w, "ACTUAL") :
                            proj \in PTOProjectIds,
                            w \in { d \in Sundays : ContributionTo(p, d) > 0 } }
        IN  /\ \A k \in Touched :
                /\ Cardinality(RowsAt(Last.after, k)) = 1
                /\ HoursAt(Last.after, k) =
                      HoursAt(Last.before, k) + ContributionTo(p, k.weekStart)
            /\ \A r \in Written(Last) \cup Replaced(Last) : KeyOf(r) \in Touched
            /\ Cardinality(PTOProjectIds) = 1
            /\ (p.allDay /\ p.startDate = 1 /\ p.endDate = 5) =>
                  /\ Cardinality(Written(Last)) = 1
                  /\ \A r \in Written(Last) :
                        /\ r.weekStart = 0
                        /\ r.hours = HoursAt(Last.before, KeyOf(r)) + 40 * MinutesPerHour

\* C5 witness: a Friday-to-Monday request was approved after another one had
\* stored hours for its first week; it raised that row and stored a second.
C5_Witness ==
    /\ ApprovedLast
    /\ Request(Last.arg.id).startDate = 5
    /\ Request(Last.arg.id).endDate = 8
    /\ Last.before # {}
    /\ Cardinality(Written(Last)) = 2
    /\ Cardinality(Replaced(Last)) = 1

----------------------------------------------------------------------------
(* Claims on the serial cell edits and mass loads *)

\* the Sunday on or before day d
SundayOf(d) == CHOOSE w \in Sundays : w <= d /\ d < w + 7

SameCallTwice(op) ==
    /\ SerialIdle
    /\ Len(hist.log) >= 2
    /\ Prev.op = op
    /\ Last.op = op
    /\ Prev.arg = Last.arg

\* C8: of two updateAllocation calls in a row with identical arguments, the
\* second leaves the Allocation table as the first left it; when the calls
\* return, the key holds exactly one row, with the given hours. (A call that
\* throws, for a caller not allowed to edit or an id that references nothing,
\* stores nothing both times.)
C8_UpdateIdempotent ==
    SameCallTwice("updateAllocation") =>
        LET a == Last.arg.a
            k == Key(a.consultantId, a.projectId, SundayOf(a.weekStart), a.entryType)
        IN  /\ Last.after = Prev.after
            /\ Last.ret.ok = Prev.ret.ok
            /\ Last.ret.ok =>
                  /\ Cardinality(RowsAt(Last.after, k)) = 1
                  /\ \A r \in RowsAt(Last.after, k) : r.hours = a.hours
            /\ ~Last.ret.ok => Prev.after = Prev.before

\* C8 witness: the first of the two calls stored a new row for a Wednesday's
\* week, the second found it.
C8_Witness ==
    /\ SameCallTwice("updateAllocation")
    /\ Last.ret.ok
    /\ Last.arg.a.weekStart = 10
    /\ Last.arg.a.hours = 120
    /\ Prev.after # Prev.before
    /\ \E r \in allocations : r.weekStart = 7 /\ r.hours = 120 /\ r.id = GenId(1)

\* the week-starts of the weeks that the range of a mass load meets
RangeWeeks(d) ==
    LET lo == Min(d.startDate, MassEnd(d))
        hi == Max(d.startDate, MassEnd(d))
    IN  { w \in Sundays : lo < w + 7 /\ w <= hi }

PairKey(d, i, w) == Key(d.consultantIds[i], d.projectId, w, d.entryType)

Pairs(d) == (1 .. Len(d.consultantIds)) \X RangeWeeks(d)

\* C9: a createMassLoad that returns, over N distinct existing consultants
\* and a range of M weeks, from a table with no row of the project and
\* entry-type, reports created = N*M and updated = 0; the same call again
\* reports created = 0 and updated = N*M and leaves the table as the first
\* call left it, with one row of the target hours per pair.
C9_MassLoadRoundTrip ==
    (SameCallTwice("massLoad") /\ Prev.ret.ok) =>
        LET d == Last.arg.data
            ids == d.consultantIds
            N == Len(ids)
            M == Cardinality(RangeWeeks(d))
            Mine(store) == { r \in store : r.projectId = d.projectId
                                            /\ r.entryType = d.entryType }
        IN  ( /\ \A i \in 1 .. N : ids[i] \in consultants
              /\ \A i, j \in 1 .. N : ids[i] = ids[j] => i = j
              /\ Mine(Prev.before) = {} ) =>
                /\ Prev.ret.created = N * M
                /\ Prev.ret.updated = 0
                /\ Prev.ret.errors = << >>
                /\ d.startDate <= MassEnd(d) => Last.ret.ok
                /\ Last.ret.ok =>
                      /\ Last.ret.created = 0
                      /\ Last.ret.updated = N * M
                      /\ Last.ret.errors = << >>
                      /\ Last.after = Prev.after
                      /\ Cardinality(Mine(Last.after)) = N * M
                      /\ \A pr \in Pairs(d) :
                            \E r \in Last.after : /\ KeyOf(r) = PairKey(d, pr[1], pr[2])
                                                  /\ r.hours = d.hours

\* C9 witness: two consultants and two weeks, 4 rows created and then 4
\* updated.
C9_Witness ==
    /\ SameCallTwice("massLoad")
    /\ Prev.before = {}
    /\ Prev.ret.ok /\ Prev.ret.created = 4
    /\ Last.ret.ok /\ Last.ret.updated = 4 /\ Last.ret.created = 0
    /\ Cardinality(allocations) = 4

\* C10: after a createMassLoad that returns, every row that a pair's key
\* held before the call is still that row, with the target hours and with the
\* supplied notes, or its old notes when the notes are omitted or empty;
\* updated counts the pairs whose key held a row when they were reached (from
\* before the call or from an earlier mention of the consultant) and created
\* counts the other pairs of existing consultants.
C10_MassLoadOverwrite ==
    (SerialIdle /\ hist.log # << >> /\ Last.op = "massLoad" /\ Last.ret.ok) =>
        LET d == Last.arg.data
            ids == d.consultantIds
            Held(pr) ==
                \/ RowsAt(Last.before, PairKey(d, pr[1], pr[2])) # {}
                \/ /\ ids[pr[1]] \in consultants
                   /\ \E j \in 1 .. (pr[1] - 1) : ids[j] = ids[pr[1]]
            Fresh(pr) == ids[pr[1]] \in consultants /\ ~Held(pr)
        IN  /\ \A pr \in Pairs(d) :
                \A old \in RowsAt(Last.before, PairKey(d, pr[1], pr[2])) :
                    \E r \in Last.after :
                        /\ r.id = old.id
                        /\ KeyOf(r) = KeyOf(old)
                        /\ r.hours = d.hours
                        /\ r.notes = IF d.notes \in {UNDEF, ""} THEN old.notes
                                     ELSE d.notes
            /\ Last.ret.updated = Cardinality({ pr \in Pairs(d) : Held(pr) })
            /\ Last.ret.created = Cardinality({ pr \in Pairs(d) : Fresh(pr) })

\* C10 witness: a mass load with empty notes over two weeks found the row of
\* 2 hours with notes "n" in the first week: the row holds 8 hours and its
\* notes, and the second week's row was created.
C10_Witness ==
    /\ SerialIdle /\ hist.log # << >> /\ Last.op = "massLoad" /\ Last.ret.ok
    /\ Last.arg.data.notes = ""
    /\ \E old \in Last.before : old.id = "r1" /\ old.hours = 120 /\ old.notes = "n"
    /\ \E r \in allocations : r.id = "r1" /\ r.hours = 480 /\ r.notes = "n"
    /\ Last.ret.updated = 1
    /\ Last.ret.created = 1

----------------------------------------------------------------------------
(* Claims on mass loads with failing pairs *)

CountKind(errors, kind) ==
    Cardinality({ i \in 1 .. Len(errors) : errors[i].kind = kind })

\* C11: when a createMassLoad that passed its checks returns, errors holds
\* one entry per listed id of no consultant and one per failed pair, and
\* created + updated + failed pairs = (listed ids of existing consultants) *
\* (weeks in range): no miss and no failed write ended the run.
C11_BestEffort ==
    [][ (calls[1].pc \in {"consultant", "existing", "write"} /\ calls'[1].pc = "idle") =>
            LET d == calls[1].data
                ids == d.consultantIds
                Listed == { i \in 1 .. Len(ids) : ids[i] \in consultants }
                Unknown == { i \in 1 .. Len(ids) : ids[i] \notin consultants }
                M == Cardinality(RangeWeeks(d))
            IN  /\ ret'.ok
                /\ CountKind(ret'.errors, "not found") = Cardinality(Unknown)
                /\ Len(ret'.errors) =
                      CountKind(ret'.errors, "not found") + CountKind(ret'.errors, "failed")
                /\ ret'.created + ret'.updated + CountKind(ret'.errors, "failed")
                      = Cardinality(Listed) * M
      ]_vars

\* C11 witness: a run returned with an unknown consultant, a pair whose write
\* failed and a pair that was written.
C11_Witness ==
    /\ calls[1].pc = "idle"
    /\ ret.ok
    /\ CountKind(ret.errors, "not found") = 1
    /\ CountKind(ret.errors, "failed") = 1
    /\ ret.created + ret.updated = 1

----------------------------------------------------------------------------
(* Claims on the actions for elevated roles *)

\* the call that the step finishes, if it finishes one
Finishing == hist'.log[Len(hist'.log)]
Finishes(op) == Len(hist'.log) = Len(hist.log) + 1 /\ Finishing.op = op

\* C12: no step of a previewMassLoad call, whoever calls it with whatever
\* input, changes the Allocation, Consultant, Project or PTO request table.
C12_PreviewWritesNothing ==
    [][ (Finishes("preview") \/ hist.cur.op = "preview" \/ hist'.cur.op = "preview")
            => UNCHANGED db ]_vars

\* C12 witness: a preview of two consultants over two weeks returned its
\* count of 4 with no Allocation row stored.
C12_Witness ==
    /\ SerialIdle
    /\ hist.log # << >>
    /\ Last.op = "preview"
    /\ Last.ret.ok
    /\ Last.ret.totalAllocations = 4
    /\ allocations = {}

ElevatedOnly == {"approve", "deny", "massLoad", "preview"}

\* C16: approvePTORequest, denyPTORequest, createMassLoad and previewMassLoad
\* called with no session or by an EMPLOYEE throw in their first step, with
\* every table unchanged; no call of such a caller gets past that step.
C16_ElevatedOnly ==
    [][ \A op \in ElevatedOnly :
            /\ (Finishes(op) /\ Finishing.arg.sess.role \in {"NONE", "EMPLOYEE"}) =>
                    /\ ~ret'.ok
                    /\ hist.cur.op = "none"
                    /\ UNCHANGED db
            /\ hist'.cur.op = op => hist'.cur.arg.sess.role \in Elevated ]_vars

\* C16 witness: an EMPLOYEE's approval was rejected and the request is
\* still PENDING, with no PTO hours stored.
C16_Witness ==
    /\ SerialIdle
    /\ hist.log # << >>
    /\ Last.op = "approve"
    /\ Last.arg.sess.role = "EMPLOYEE"
    /\ ~Last.ret.ok
    /\ \A p \in ptoRequests : p.status = "PENDING"
    /\ ptoLog = {}

----------------------------------------------------------------------------
(* Editability by week class (SpecGrid) *)

ActualsOfFutureWeeks(store) ==
    { r \in store : r.entryType = "ACTUAL" /\ isFuture(r.weekStart) }

\* the PROJECTED rows of past weeks, with their hours
ProjectedOfPastWeeks(store) ==
    { [key |-> KeyOf(r), hours |-> r.hours] :
        r \in { x \in store : x.entryType = "PROJECTED" /\ isPast(x.weekStart) } }

\* C13: a write of ACTUAL hours for a FUTURE week, through updateAllocation,
\* the quick-add handleSave of WeekCell or handleSaveAll of WeekCellEditor, is
\* rejected or leaves the Allocation store unchanged: no step of an edit
\* changes the ACTUAL rows of a week after the current one
C13_FutureActualsUntouched ==
    [][ ActualsOfFutureWeeks(allocations') = ActualsOfFutureWeeks(allocations) ]_vars

\* C14: for a PAST week no edit operation (updateAllocation, deleteAllocation,
\* handleSave in projected view, handleSaveAll with the removal of a project)
\* creates, changes or deletes a PROJECTED row: the PROJECTED rows of past
\* weeks and their hours are the same before and after every step
C14_PastProjectedFrozen ==
    [][ ProjectedOfPastWeeks(allocations') = ProjectedOfPastWeeks(allocations) ]_vars

----------------------------------------------------------------------------
(* Who may write a cell (SpecCellAuth) *)

\* the caller of the call is not allowed to write the cells of the target
Stranger(e) ==
    \/ e.arg.sess = NoSession
    \/ /\ e.arg.sess.role = "EMPLOYEE"
       /\ e.arg.sess.consultantId # e.arg.a.consultantId

TargetRows(e, store) ==
    RowsAt(store, Key(e.arg.a.consultantId, e.arg.a.projectId,
                      SundayOf(e.arg.a.weekStart), e.arg.a.entryType))

\* C15: updateAllocation and deleteAllocation called without a session, or
\* by an EMPLOYEE whose linked consultant differs from the target consultant
\* (or who has no linked consultant), throw and leave the Allocation store
\* unchanged; an ADMIN or MANAGER writes and deletes the cells of any
\* consultant
C15_CellAuthorization ==
    hist.log # << >> =>
        LET e == Last IN
        /\ Stranger(e) => ~e.ret.ok /\ e.after = e.before
        /\ (e.arg.sess.role \in Elevated /\ e.op = "updateAllocation") =>
                /\ e.ret.ok
                /\ \E r \in TargetRows(e, e.after) : r.hours = e.arg.a.hours
        /\ (e.arg.sess.role \in Elevated /\ e.op = "deleteAllocation"
                /\ TargetRows(e, e.before) # {}) =>
                /\ e.ret.ok
                /\ TargetRows(e, e.after) = {}

\* an employee linked to c1 was refused on a cell of c2 that a manager had
\* written in the call before
C15_Witness ==
    /\ Len(hist.log) = 2
    /\ Prev.op = "updateAllocation" /\ Prev.arg.sess.role = "MANAGER"
    /\ Prev.arg.a.consultantId = "c2" /\ Prev.ret.ok
    /\ Last.arg.sess = [role |-> "EMPLOYEE", consultantId |-> "c1"]
    /\ Last.arg.a.consultantId = "c2"
    /\ ~Last.ret.ok
    /\ Last.after = Last.before
    /\ TargetRows(Last, Last.after) # {}

----------------------------------------------------------------------------
(* The sign of stored hours (SpecHours) *)

\* C17: in every reachable state every Allocation row has hours >= 0; a
\* write with negative hours through updateAllocation or createMassLoad is
\* rejected before any row is created or changed, and approvePTORequest
\* never stores a non-positive amount
C17_NonNegativeHours ==
    \A r \in allocations : r.hours >= 0

----------------------------------------------------------------------------
(* Canonical week starts (SpecAlloc) *)

\* C18: in every reachable state every stored Allocation week-start is a
\* Sunday: updateAllocation, createMassLoad and approvePTORequest map the date
\* they are given (here a Wednesday, a Wednesday to the Monday after, and a
\* Monday to Friday) to the Sunday at or before it before using it as a key
C18_SundayWeekStarts ==
    \A r \in allocations : getDay(r.weekStart) = 0

\* a row of the seed project and a row of the PTO project are stored under
\* day 0, from a Wednesday and from a request that starts on a Monday
C18_Witness ==
    /\ \E r \in allocations : r.projectId = SeedProjectId /\ r.weekStart = 0
    /\ \E r \in allocations : r.projectId \in PTOProjectIds /\ r.weekStart = 0

----------------------------------------------------------------------------
(* The grid returned by getUtilizationData (SpecUtil) *)

\* the last finished call is a getUtilizationData that returned a grid
GridReturned ==
    /\ hist.log # << >>
    /\ Last.op = "getUtilizationData"
    /\ Last.ret.ok

\* the stored rows of a consultant and a week-start when the grid was fetched
StoredRows(c, week) ==
    { r \in Last.before : r.consultantId = c /\ r.weekStart = week }

WeeksListed == { Last.ret.weeks[i] : i \in DOMAIN Last.ret.weeks }

ZeroCell == [actual |-> 0, projected |-> 0, details |-> << >>]

\* C19: the result of getUtilizationData has a cell for every consultant
\* returned and every week in weeks, also when no Allocation row references
\* that consultant and week; such a cell has actual = 0, projected = 0 and
\* empty details
C19_DenseGrid ==
    GridReturned =>
        \A c \in Last.ret.consultants, week \in WeeksListed :
            /\ c \in DOMAIN Last.ret.allocations
            /\ week \in DOMAIN Last.ret.allocations[c]
            /\ StoredRows(c, week) = {} => Last.ret.allocations[c][week] = ZeroCell

\* a grid of three weeks was returned in which c2 has no row in week 0 and a
\* row in week 7
C19_Witness ==
    /\ GridReturned
    /\ Last.ret.weeks = <<0, 7, 14>>
    /\ StoredRows("c2", 0) = {}
    /\ StoredRows("c2", 7) # {}
    /\ Last.ret.allocations["c2"][0] = ZeroCell
    /\ Last.ret.allocations["c2"][7].actual = 480

\* C20: for every range [start, end], also with a start that is not a
\* Sunday, and for every consultant and every week-start listed in weeks,
\* the cell's actual is the sum of the hours of the stored ACTUAL rows of that
\* consultant and week-start, projected the sum over its PROJECTED rows, and
\* details has one line per such row
C20_CellSums ==
    (/\ GridReturned
     /\ UtilRange(Last.arg.startDate, Last.arg.endDate).start
            <= UtilRange(Last.arg.startDate, Last.arg.endDate).end) =>
        \A c \in Last.ret.consultants, week \in WeeksListed :
            LET cell == Last.ret.allocations[c][week]
                rows == StoredRows(c, week)
            IN  /\ cell.actual = SumHours({ r \in rows : r.entryType = "ACTUAL" })
                /\ cell.projected = SumHours({ r \in rows : r.entryType = "PROJECTED" })
                /\ Len(cell.details) = Cardinality(rows)
                /\ \A r \in rows : \E i \in DOMAIN cell.details :
                        cell.details[i] = DetailLine(r)

----------------------------------------------------------------------------
(* Status thresholds (SpecStatus) *)

StatusReturned == "status" \in DOMAIN ret

\* C21: getUtilizationStatus(hours, standardHours) returns under exactly when
\* hours < 0.9 x standardHours, over exactly when hours > 1.1 x
\* standardHours and normal otherwise, so exactly 0.9 x and exactly 1.1 x
\* standardHours are normal
C21_StatusThresholds ==
    StatusReturned =>
        /\ ret.status = "under" <=> 10 * ret.hours < 9 * ret.standardHours
        /\ ret.status = "over" <=> 10 * ret.hours > 11 * ret.standardHours
        /\ ret.status \in {"under", "normal", "over"}

\* 36 of 40 hours is normal
C21_Witness ==
    /\ StatusReturned
    /\ ret.hours = 36 * 60
    /\ ret.standardHours = 40 * 60
    /\ ret.status = "normal"

----------------------------------------------------------------------------
(* The weeks of a range (SpecWeeks) *)

WeeksReturned ==
    /\ "weeks" \in DOMAIN ret
    /\ ret.ok
    /\ ret.start <= ret.end

\* the Sundays whose week, Sunday to Saturday, has a day in [start, end]
OverlappingWeeks(start, end) ==
    { w \in (start - 6) .. end : getDay(w) = 0 /\ w + 6 >= start /\ w <= end }

\* C22: for every range with start <= end, getWeeksInRange returns only
\* Sundays, strictly increasing and without duplicates, and lists the
\* week-start of every week that overlaps [start, end] and of no other week
C22_WeeksInRange ==
    WeeksReturned =>
        LET w == ret.weeks IN
        /\ \A i \in DOMAIN w : getDay(w[i]) = 0
        /\ \A i, j \in DOMAIN w : i < j => w[i] < w[j]
        /\ { w[i] : i \in DOMAIN w } = OverlappingWeeks(ret.start, ret.end)

\* a range from a Wednesday to a Monday twelve days later: three weeks
C22_Witness ==
    /\ WeeksReturned
    /\ ret.start = 3
    /\ ret.end = 15
    /\ ret.weeks = <<0, 7, 14>>

----------------------------------------------------------------------------
(* Deletes of referenced entities (SpecDelete) *)

\* the call of slot s passes its count of the allocations in this step
PassesCount(s, pc) == calls[s].pc = "idle" /\ calls'[s].pc = pc

----------------------------------------------------------------------------
(* Reconciliation by the editor (SpecEditor) *)

\* handleSaveAll has completed without an error
SavedAll ==
    /\ hist.log # << >>
    /\ Last.op = "handleSaveAll"
    /\ Last.ret.ok

CellRows(store, consultantId, week) ==
    { r \in store : r.consultantId = consultantId /\ r.weekStart = week }

\* project, entry type and hours of the rows
Amounts(rows) ==
    { [projectId |-> r.projectId, entryType |-> r.entryType, hours |-> r.hours] :
        r \in rows }

\* what the edited set asks for: a row per positive amount
EditedAmounts(edited) ==
    { [projectId |-> p, entryType |-> "ACTUAL", hours |-> edited[p].actualHours] :
        p \in { q \in DOMAIN edited : edited[q].present /\ edited[q].actualHours > 0 } }
    \cup
    { [projectId |-> p, entryType |-> "PROJECTED", hours |-> edited[p].projectedHours] :
        p \in { q \in DOMAIN edited : edited[q].present /\ edited[q].projectedHours > 0 } }

\* C24: for a CURRENT week, with details equal to the persisted rows and no
\* other writer, after handleSaveAll completes the rows of the cell are one
\* ACTUAL row with actualHours per edited project with actualHours > 0, one
\* PROJECTED row with projectedHours per edited project with
\* projectedHours > 0, and nothing else
C24_SaveAllReconciles ==
    SavedAll =>
        Amounts(CellRows(Last.after, Last.arg.consultantId, Last.arg.week))
            = EditedAmounts(Last.arg.edited)

\* the states editedAllocations can have when the dialog has just been
\* opened on the rows of the cell
Unedited(details) ==
    { Grouped(details, GridProjectIds, notesOf) :
        notesOf \in { f \in [GridProjectIds -> {"", "a", "p"}] :
                        \A p \in GridProjectIds : f[p] \in GroupedNotes(details, p) } }

\* C30: opening WeekCellEditor on a CURRENT-week cell and saving without any
\* edit is a no-op on the stored data: hours and notes of every row of the
\* cell are the same after handleSaveAll as before, also when the ACTUAL and
\* the PROJECTED row of one project carry different notes
C30_SaveUneditedNoOp ==
    (/\ SavedAll
     /\ Last.arg.edited
            \in Unedited(CellRows(Last.before, Last.arg.consultantId, Last.arg.week))) =>
        Last.after = Last.before

----------------------------------------------------------------------------
(* Concurrent approvals (SpecTwoApprovals) *)

RECURSIVE SumContributions(_, _)
SumContributions(reqs, w) ==
    IF reqs = {} THEN 0
    ELSE LET p == CHOOSE x \in reqs : TRUE
         IN  ContributionTo(p, w) + SumContributions(reqs \ {p}, w)

\* the hours stored in rows for PTO of consultant c in week w
PTOHoursIn(rows, projs, c, w) ==
    SumHours({ r \in rows : /\ r.consultantId = c
                            /\ r.weekStart = w
                            /\ r.entryType = "ACTUAL"
                            /\ \E p \in projs : p.id = r.projectId /\ p.timecode = PTO_TIMECODE })

\* the call of slot s got past the checks of approvePTORequest
Approving(s) == calls[s].pc \in {"findProject", "createProject", "upsert"}

\* the other approval ended with its request APPROVED
OtherApproved(s) ==
    \E p \in ptoRequests : p.id # calls[s].pto.id /\ p.status = "APPROVED"

\* C25: when the approvals of two different PENDING requests of one
\* consultant that contribute to the same week run concurrently, the PTO
\* ACTUAL row of that week ends with the sum of both weekly contributions
\* under every interleaving, also when the row does not exist before either
\* approval: when the second of the two approvals ends, every week holds
\* the contributions of both requests
C25_NoLostUpdate ==
    [][ \A s \in Slots :
            (Approving(s) /\ calls'[s] = Idle /\ OtherApproved(s)) =>
                \A w \in Sundays :
                    PTOHoursIn(allocations', projects', "c1", w)
                        = SumContributions(ptoRequests, w) ]_vars

\* once no approval is running, every week holds the contributions of the
\* requests that are APPROVED
ApprovedContributionsKept ==
    SerialIdle =>
        \A w \in Sundays :
            PTOHoursIn(allocations, projects, "c1", w)
                = SumContributions({ p \in ptoRequests : p.status = "APPROVED" }, w)

\* both requests are approved and both contributed to week 0
BothApprovedSameWeek ==
    /\ SerialIdle
    /\ \A p \in ptoRequests : p.status = "APPROVED" /\ ContributionTo(p, 0) > 0

PTOSinks(projs) == { p \in projs : p.timecode = PTO_TIMECODE }

\* the call of slot s takes this step from position pc
StepsFrom(s, pc) == calls[s].pc = pc /\ calls'[s] # calls[s]

\* C26: approvePTORequest creates the PTO sink project (timecode
\* INT-PTO-001, client Internal, type ASSIGNED, status ACTIVE) when none
\* exists and reuses it otherwise; at most one project carries that
\* timecode, also when two approvals that both find it absent interleave
C26_OneSinkProject ==
    [][ /\ Cardinality(PTOSinks(projects')) <= 1
        /\ \A s \in Slots :
            /\ (StepsFrom(s, "findProject") /\ PTOSinks(projects) # {}) =>
                    /\ projects' = projects
                    /\ calls'[s].pc = "upsert"
                    /\ calls'[s].proj \in PTOProjectIds
            /\ (StepsFrom(s, "createProject") /\ PTOSinks(projects) = {}) =>
                    /\ calls'[s].pc = "upsert"
                    /\ \E p \in projects' :
                        /\ projects' = projects \cup {p}
                        /\ p.id = calls'[s].proj
                        /\ p.timecode = PTO_TIMECODE
                        /\ p.client = "Internal"
                        /\ p.type = "ASSIGNED"
                        /\ p.status = "ACTIVE" ]_vars

\* an approval that found no PTO project is about to create one, and the
\* other approval has created it since
C26_Witness ==
    \E s \in Slots :
        /\ calls[s].pc = "createProject"
        /\ PTOSinks(projects) # {}
        /\ "pto" \notin PTOProjectIds

----------------------------------------------------------------------------
(* Preview against load (SpecPreview) *)

\* a preview and then a load of the same input both returned, and the load
\* recorded no failed write
PreviewedAndLoaded ==
    /\ SerialIdle
    /\ Len(hist.log) = 2
    /\ Prev.op = "preview" /\ Prev.ret.ok
    /\ Last.op = "massLoad" /\ Last.ret.ok
    /\ Last.arg = Prev.arg
    /\ Last.before = Prev.after
    /\ \A i \in DOMAIN Last.ret.errors : Last.ret.errors[i].kind # "failed"

\* C27: for identical input evaluated on the same state with no storage
\* failure, previewMassLoad's totalAllocations equals created + updated of
\* createMassLoad and its totalHours equals that count times hours, also
\* when consultantIds holds an id twice or the id of a consultant that
\* does not exist
C27_PreviewMatchesLoad ==
    PreviewedAndLoaded =>
        /\ Prev.ret.totalAllocations = Last.ret.created + Last.ret.updated
        /\ Prev.ret.totalHours
               = (Last.ret.created + Last.ret.updated) * Last.arg.data.hours

\* the ids of the input are distinct
DistinctIds(ids) == \A i, j \in DOMAIN ids : ids[i] = ids[j] => i = j

\* the same comparison for inputs that name no consultant twice
PreviewMatchesLoadDistinct ==
    (PreviewedAndLoaded /\ DistinctIds(Last.arg.data.consultantIds)) =>
        /\ Prev.ret.totalAllocations = Last.ret.created + Last.ret.updated
        /\ Prev.ret.totalHours
               = (Last.ret.created + Last.ret.updated) * Last.arg.data.hours

\* a preview and a load of an input with an unknown consultant
PreviewedUnknownConsultant ==
    /\ PreviewedAndLoaded
    /\ \E i \in DOMAIN Last.arg.data.consultantIds :
            Last.arg.data.consultantIds[i] \notin consultants
    /\ Last.ret.created > 0

----------------------------------------------------------------------------
(* The total of an approval (SpecTotals) *)

\* the Monday-to-Friday days of the request
MondayToFriday(pto) ==
    { d \in pto.startDate .. pto.endDate : getDay(d) \in 1 .. 5 }

\* the hours the last call added to the Allocation table
HoursAdded == SumHours(Last.after) - SumHours(Last.before)

\* C28: for every request with startDate <= endDate and positive
\* hoursPerDay, the hours approvePTORequest adds over all weeks sum to
\* totalPTOHours = (number of Monday-to-Friday days in [startDate, endDate])
\* times hoursPerDay: no business day is dropped or counted in two weeks
C28_WeeksSumToTotal ==
    (ApprovedLast /\ Request(Last.arg.id).startDate <= Request(Last.arg.id).endDate
                  /\ HoursPerDay(Request(Last.arg.id)) > 0) =>
        LET pto == Request(Last.arg.id) IN
        /\ HoursAdded = TotalPTOHours(pto)
        /\ HoursAdded = Cardinality(MondayToFriday(pto)) * HoursPerDay(pto)

\* a timed request from Friday to the Tuesday eleven days later is approved:
\* three weeks written
C28_Witness ==
    /\ ApprovedLast
    /\ LET pto == Request(Last.arg.id) IN
        /\ pto.startDate = 5 /\ pto.endDate = 16 /\ ~pto.allDay
        /\ Cardinality(Last.after) = 3
        /\ HoursAdded = 8 * HoursPerDay(pto)

----------------------------------------------------------------------------
(* Failed approvals (SpecPTO) *)

\* no approvePTORequest call is executing
NoApprovalRunning == \A s \in Slots : IsIdle(s) \/ calls[s].op # "approve"

\* request id was created and is still PENDING, or is deleted
PendingOrDeleted(id) ==
    /\ id < nextPtoId
    /\ \A p \in PTOById(id) : p.status = "PENDING"

\* hours written on behalf of request id
WroteHours(id) == \E e \in ptoLog : e.id = id /\ e.ev = "upsert"

\* C29: whenever no approvePTORequest call is executing, a request that is
\* still PENDING or has been deleted has contributed no hours to the
\* Allocation store: an approval that fails after some weekly writes leaves
\* no hours of its request behind
C29_FailedApprovalLeavesNothing ==
    NoApprovalRunning =>
        \A id \in 1 .. MaxPTO + 1 : PendingOrDeleted(id) => ~WroteHours(id)

====
